---------------------------- MODULE Spec2Model ----------------------------
(***************************************************************************)
(* Memory store with online embedding migration (micro-agent).             *)
(*                                                                         *)
(* The model covers MemoryStore (the LanceDB table, store, updateVector,   *)
(* query, migrateToModel and the pause/resume/retry wrappers) and          *)
(* EmbeddingMigration (start, pause, resume, runMigration, fetchNextBatch, *)
(* processBatch, completeMigration, retryFailed).  Every `await` of the    *)
(* source that separates two accesses to shared data is a step boundary:   *)
(* the event loop may run any other ready task there.                      *)
(*                                                                         *)
(* The table's schema holds the target model's vector column (initialize   *)
(* -> ensureVectorColumn), so hasVectorColumn(targetModel) is true and     *)
(* fetchNextBatch applies its `IS NULL` filter.                            *)
(*                                                                         *)
(* The agent executor (session history of the ReAct loop) is modelled      *)
(* beside it; the two share no data.                                       *)
(*                                                                         *)
(* The specifications:                                                     *)
(*   Spec      the migration engine under control calls, injected I/O      *)
(*             failures and process restarts;                              *)
(*   LiveSpec  the engine in a process that keeps running, with the        *)
(*             fairness of the event loop;                                 *)
(*   StoreSpec foreground store() calls beside one migration;              *)
(*   LoadSpec  the engine started on a corrupt migration-state.json;       *)
(*   ExecSpec  the agent executor consuming inbound messages;              *)
(*   LoopSpec  the AgentLoop variant of the executor;                      *)
(*   NearestSpec, RouteSpec  the ModelRouter's selection functions, each   *)
(*             called once on an input drawn from bounded sets;            *)
(*   ColumnSpec  a model id converted to its vector column name and back;  *)
(*   SearchSpec  MemoryStore.search called once on a table;                *)
(*   CleanupSpec  MemoryStore.cleanupExpired called once on a table;       *)
(*   ParseSpec  parseReActResponse called once on a reply;                 *)
(*   RejectSpec  the engine with one record whose embedding always fails;  *)
(*   ConfigSpec  ModelRouter.selectModelByIntent called once on a pool.    *)
(***************************************************************************)
EXTENDS Integers, Sequences, FiniteSets, TLC

\* ------------------------------------------------------------------ bounds
InitRows == 2      \* rows in the table when the model starts (ids 1..InitRows)
MaxBatch == 1      \* explicit batchSize arguments range over 1..MaxBatch
MaxTime == 3       \* Date.now() ranges over InitRows+1..MaxTime
MaxFail == 1       \* I/O failures (embed, delete, add) the environment injects
MaxStores == 1     \* foreground store() calls
MaxRestarts == 1   \* process restarts
MaxControl == 3    \* calls of start/pause/resume/retryFailed/migrateToModel
MaxInst == 2       \* EmbeddingMigration objects alive in one process
MaxTasks == 2      \* background runMigration loops / retryFailed calls alive
MaxCalls == 2      \* start / resume / migrateToModel calls in flight
MaxKeys == 3       \* session keys (channel:chatId) of inbound messages
MaxTurns == 4      \* inbound messages the executor consumes
maxIterations == 2 \* config.maxIterations (20 by default)
MAX_SESSIONS == 2  \* sessions kept; 1000 in the source, scaled down
MaxModels == 2      \* models in the router's pool
MaxPriority == 2    \* rule priorities range over 1..MaxPriority
MaxIdLen == 3       \* characters in the model part of a model id
MaxRows == 2        \* records in the table that search() reads
MaxScore == 2       \* keyword occurrences counted in one record
MaxDim == 2         \* vector dimensions range over 1..MaxDim
MaxLimit == 2       \* search limits range over 1..MaxLimit
MaxDays == 3        \* creation days and retention periods range over 1..MaxDays
MAX_HISTORY_PER_SESSION == 4   \* messages kept per session; 50 in the source,
                               \* scaled down

\* ------------------------------------------------------------------ values
NULL == "null"     \* vector column holds no value
EMPTY == "empty"   \* vector column holds []  (store() without an embedding)
FG == "fg"         \* vector written by a foreground store()
MIG == "mig"       \* vector written by the migration's updateVector
Target == "target" \* the migration's targetModel
Other == "other"   \* any other embedding model id

Ids == 1 .. (InitRows + 1)
Insts == 1 .. MaxInst

NoRow == [id |-> 0, createdAt |-> 0, updatedAt |-> 0, vec |-> NULL,
          active_embed |-> Other, content |-> 0]

\* this.state of an EmbeddingMigration; status "null" stands for `state = null`
\* (and, for the state file, for "no file").  migratedUntil = 0 and
\* completedAt = 0 stand for `undefined` (the code tests `if (migratedUntil)`).
NoState == [status |-> "null", totalRecords |-> 0, migratedCount |-> 0,
            migratedUntil |-> 0, batchSize |-> 0, failedRecords |-> << >>,
            completedAt |-> 0]

\* a runMigration loop ("mig") or a retryFailed call ("retry") between awaits:
\* its EmbeddingMigration object, its position, the batch / toRetry list and the
\* index of the record in hand, the snapshot and timestamp updateVector holds,
\* whether its delete has resolved, the cursor fetchNextBatch read, and the
\* batchSize argument of runMigration
NewTask == [kind |-> "mig", inst |-> 0, pc |-> "fetch", batch |-> << >>, idx |-> 0,
            snap |-> NoRow, ts |-> 0, deleted |-> FALSE, cur |-> 0, bs |-> 0]

\* a start / resume / migrateToModel call between awaits
NewCall == [kind |-> "start", inst |-> 0, pc |-> "init", bs |-> 0, auto |-> FALSE]

VARIABLES
    table,              \* the LanceDB table `memories`: rows in insertion order
    now,                \* the last value read from the clock
    stateFile,          \* migration-state.json
    state,              \* state[i]: this.state of EmbeddingMigration object i
    aborted,            \* aborted[i]: this.abortController?.signal.aborted
    nInst,              \* EmbeddingMigration objects created since process start
    migrationInstance,  \* MemoryStore.migrationInstance (0 = null)
    tasks,              \* running runMigration loops and retryFailed calls
    calls,              \* start / resume / migrateToModel calls between awaits
    emitted,            \* event types the worker loop has emitted (progress, complete)
    failBudget,         \* injected failures left
    stores,             \* foreground store() calls made
    controls,           \* control calls made
    restarts,           \* process restarts made
    backup,             \* a backup copy of a corrupt migration-state.json was written
    written,            \* written[i][id]: successful updateVector calls the migration
                        \* of object i has made for record id since its start (history)
    conversationHistory,\* AgentExecutor.conversationHistory: the Map's entries in
                        \* insertion order
    turn,               \* the processMessage call the executor's run loop is in
    reply,              \* the last OutboundMessage processMessage returned
    systemPrompt,       \* config.systemPrompt is a non-empty string
    lastUpdate,         \* lastUpdate[key]: the turn that last stored the session (history)
    running,            \* AgentExecutor.running
    turns,              \* inbound messages consumed so far
    input,              \* the arguments (and object fields) of a call of a function
                        \* without side effects: router, column names, search
    output              \* what the call returned

vars == << table, now, stateFile, state, aborted, nInst,
           migrationInstance, tasks, calls, emitted, failBudget, stores, controls,
           restarts, backup, written,
           conversationHistory, turn, reply, systemPrompt, lastUpdate, running, turns,
           input, output >>

\* The memory store and its migration / the agent executor
MemoryVars == << table, now, stateFile, state, aborted, nInst,
                 migrationInstance, tasks, calls, emitted, failBudget, stores,
                 controls, restarts, backup, written >>
ExecVars == << conversationHistory, turn, reply, systemPrompt, lastUpdate, running, turns >>
CallVars == << input, output >>

\* no function has been called
NoCall == [fn |-> "none"]

\* ------------------------------------------------------------------ helpers
Min(a, b) == IF a < b THEN a ELSE b

RemoveAt(s, k) == [j \in 1 .. (Len(s) - 1) |-> IF j < k THEN s[j] ELSE s[j + 1]]

RowsWithId(t, id) == SelectSeq(t, LAMBDA r : r.id = id)

\* table.delete(`id = "<id>"`)
DeleteById(t, id) == SelectSeq(t, LAMBDA r : r.id # id)

\* Array.prototype.sort with the comparator of query(): stable, so rows with
\* equal createdAt keep their table order.
RECURSIVE SortDesc(_)
SortDesc(s) ==
    IF s = << >> THEN << >>
    ELSE LET mx == CHOOSE i \in 1 .. Len(s) :
                     /\ \A j \in 1 .. Len(s) : s[j].createdAt <= s[i].createdAt
                     /\ \A j \in 1 .. (i - 1) : s[j].createdAt < s[i].createdAt
         IN << s[mx] >> \o SortDesc(RemoveAt(s, mx))

\* MemoryStore.count()
count(t) == Len(t)

\* MemoryStore.query({filter: {<target column>: {$exists:false}, createdAt: {$gt}},
\*                    limit, orderBy: createdAt desc})  followed by recordToEntry.
\* The where() conditions are taken together; createdAt goes through
\* new Date(ms) and back through getTime(), which returns the same integer.
query(t, migratedUntil, limit) ==
    LET hit(r) == /\ r.vec = NULL
                  /\ (migratedUntil # 0 => r.createdAt > migratedUntil)
        sorted == SortDesc(SelectSeq(t, hit))
        n == Min(limit, Len(sorted))
    IN [k \in 1 .. n |-> [id |-> sorted[k].id, createdAt |-> sorted[k].createdAt]]

\* EmbeddingMigration.fetchNextBatch: the cursor was read before the awaits
fetchNextBatch(t, migratedUntil, batchSize) == query(t, migratedUntil, batchSize)

\* a state file that fails JSON.parse or validateState
Corrupt == [NoState EXCEPT !.status = "corrupt"]

\* loadState 215-253: the state a load yields; none for a missing or corrupt file
loadState == IF stateFile = Corrupt THEN NoState ELSE stateFile

\* the state getStatus() leaves in this.state: loaded from the file when null
getStatus(i) == IF state[i].status # "null" THEN state[i] ELSE loadState

StatusOf(s) == IF s.status = "null" THEN "idle" ELSE s.status

\* Date.now(): the clock has not gone back since it was last read
Clock == now .. Min(now + 1, MaxTime)

\* ------------------------------------------------------------------ Init
InitTable == [k \in 1 .. InitRows |->
                [id |-> k, createdAt |-> k, updatedAt |-> k, vec |-> NULL,
                 active_embed |-> Other, content |-> 0]]

\* ------------------------------------------------------------------ AgentExecutor values
Keys == 1 .. MaxKeys

\* an LLMMessage without its text, which the executor never reads back: its
\* role, whether it carries toolCalls, and the turn n it was created in (0 for
\* the system prompt)
Message(role, n, toolCalls) ==
    [role |-> role, n |-> n, toolCalls |-> toolCalls]

\* the run loop waits in bus.consumeInbound()
NoTurn == [pc |-> "idle", key |-> 0, n |-> 0, messages |-> << >>,
           iteration |-> 0, lastContent |-> ""]

NoReply == [n |-> 0, key |-> 0, outcome |-> "none", content |-> ""]

\* the loop of run() has been left
Stopped == [NoTurn EXCEPT !.pc = "stopped"]

\* the executor after construction (lines 90-94) and the call of run() up to
\* its first consumeInbound (116-147)
ExecInit ==
    /\ conversationHistory = << >>
    /\ turn = NoTurn
    /\ reply = NoReply
    /\ lastUpdate = [k \in Keys |-> 0]
    /\ running = TRUE
    /\ turns = 0

Init ==
    /\ table = InitTable
    /\ now = InitRows + 1
    /\ stateFile = NoState
    /\ state = [i \in Insts |-> NoState]
    /\ aborted = [i \in Insts |-> FALSE]
    /\ nInst = 0
    /\ migrationInstance = 0
    /\ tasks = << >>
    /\ calls = << >>
    /\ emitted = {}
    /\ failBudget = MaxFail
    /\ stores = 0
    /\ controls = 0
    /\ restarts = 0
    /\ backup = FALSE
    /\ written = [i \in Insts |-> [id \in Ids |-> 0]]
    /\ ExecInit
    /\ systemPrompt = TRUE
    /\ input = NoCall
    /\ output = NoCall

\* ------------------------------------------------------------------ MemoryStore.store
\* Variables no step of the store or of the migration tasks writes.
Config == << aborted, nInst, migrationInstance, calls, controls, restarts, backup >>

\* history counters stop at this value
MaxWritten == 2

\* MemoryStore.store(entry): one table.add, no delete of an older row with the id.
\* The entry is stamped by its caller with new Date(); its vector goes to the
\* column of config.embedModel (which switchModel may have changed), so the
\* target column is left NULL under another model, and holds [] when no
\* embedding could be computed.
store(id, embedModel, embedOk, time) ==
    /\ stores < MaxStores
    /\ stores' = stores + 1
    /\ now' = time
    /\ LET vector == IF embedModel # Target THEN NULL
                     ELSE IF embedOk THEN FG ELSE EMPTY
           record == [id |-> id, createdAt |-> time, updatedAt |-> time,
                      vec |-> vector, active_embed |-> embedModel, content |-> 1]
       IN table' = Append(table, record)
    /\ UNCHANGED << stateFile, state, tasks, emitted, failBudget, written >>
    /\ UNCHANGED Config
    /\ UNCHANGED ExecVars
    /\ UNCHANGED CallVars

\* ------------------------------------------------------------------ per-record steps
\* (shared by processBatch and retryFailed: embed, then updateVector)

Entry(t) == tasks[t].batch[tasks[t].idx]

\* The rest of the loop body after the record at idx was handled, leaving `st`
\* in this.state: next record, or the end of the batch (saveState, progress
\* event, the sleep before the loop test of runMigration) / of retryFailed
\* (saveState, return).
Advance(t, st) ==
    LET tk == tasks[t]
        last == tk.idx = Len(tk.batch)
    IN /\ state' = [state EXCEPT ![tk.inst] = st]
       /\ stateFile' = IF last THEN st ELSE stateFile
       /\ emitted' = IF last /\ tk.kind = "mig" THEN emitted \cup {"progress"}
                     ELSE emitted
       /\ tasks' = IF ~last
                   THEN [tasks EXCEPT ![t] = [tk EXCEPT !.pc = "read", !.idx = tk.idx + 1,
                                                        !.snap = NoRow, !.ts = 0,
                                                        !.deleted = FALSE]]
                   ELSE IF tk.kind = "mig"
                   THEN [tasks EXCEPT ![t] = [tk EXCEPT !.pc = "loop", !.batch = << >>,
                                                        !.idx = 0, !.snap = NoRow,
                                                        !.ts = 0, !.deleted = FALSE,
                                                        !.cur = 0]]
                   ELSE RemoveAt(tasks, t)

\* processBatch 556-565: migratedCount++, migratedUntil = entry.createdAt
recordMigrated(st, e) ==
    [st EXCEPT !.migratedCount = @ + 1, !.migratedUntil = e.createdAt]

\* (variant of recordRetried that leaves the id in failedRecords)
recordRetriedKeepsRecord(st, e) ==
    [st EXCEPT !.migratedCount = @ + 1]

\* retryFailed 688-692: drop the id from failedRecords, migratedCount++
recordRetried(st, e) ==
    [st EXCEPT !.failedRecords = SelectSeq(@, LAMBDA f : f # e.id),
               !.migratedCount = @ + 1]

recordSucceeded(kind, st, e) ==
    IF kind = "mig" THEN recordMigrated(st, e) ELSE recordRetried(st, e)

\* processBatch 566-586: push {id, error, timestamp} to failedRecords
\* retryFailed 693-695: only the local stillFailed list changes
recordFailed(kind, st, e) ==
    IF kind = "mig"
    THEN [st EXCEPT !.failedRecords = Append(@, e.id)]
    ELSE st

Succeeded(t) ==
    LET tk == tasks[t]
    IN /\ Advance(t, recordSucceeded(tk.kind, state[tk.inst], Entry(t)))
       /\ written' = [written EXCEPT ![tk.inst][Entry(t).id] = Min(@ + 1, MaxWritten)]

Failed(t) ==
    /\ Advance(t, recordFailed(tasks[t].kind, state[tasks[t].inst], Entry(t)))
    /\ UNCHANGED written

\* embeddingService.embed(content), then updateVector up to its snapshot:
\* the row is read (limit 1) and `updated` is built with updatedAt = Date.now().
processEntry(t, time) ==
    LET tk == tasks[t]
        rows == RowsWithId(table, Entry(t).id)
    IN /\ tk.pc = "read"
       /\ \/ \* embed() rejects
             /\ failBudget > 0
             /\ failBudget' = failBudget - 1
             /\ Failed(t)
             /\ UNCHANGED now
          \/ \* getById() = null (retryFailed) / 'Record not found' (updateVector)
             /\ rows = << >>
             /\ Failed(t)
             /\ UNCHANGED << failBudget, now >>
          \/ /\ rows # << >>
             /\ now' = time
             /\ tasks' = [tasks EXCEPT ![t] =
                            [tk EXCEPT !.pc = "del", !.snap = rows[1], !.ts = time]]
             /\ UNCHANGED << state, stateFile, emitted, failBudget, written >>
       /\ UNCHANGED << table, stores >>
       /\ UNCHANGED Config
       /\ UNCHANGED ExecVars
       /\ UNCHANGED CallVars

\* (variant of updated that leaves updatedAt as it was)
updatedKeepsStamp(original, ts) ==
    [original EXCEPT !.vec = MIG, !.active_embed = Target]

\* updateVector 1186-1191: the record written back
updated(original, ts) ==
    [original EXCEPT !.vec = MIG, !.active_embed = Target, !.updatedAt = ts]

\* updateVector 1198: table.delete(`id = ...`)
updateVectorDelete(t) ==
    LET tk == tasks[t]
    IN /\ tk.pc = "del"
       /\ \/ /\ table' = DeleteById(table, tk.snap.id)
             /\ tasks' = [tasks EXCEPT ![t] = [tk EXCEPT !.pc = "add", !.deleted = TRUE]]
             /\ UNCHANGED failBudget
          \/ \* the delete rejects: into the catch block
             /\ failBudget > 0
             /\ failBudget' = failBudget - 1
             /\ tasks' = [tasks EXCEPT ![t] = [tk EXCEPT !.pc = "rec"]]
             /\ UNCHANGED table
       /\ UNCHANGED << now, state, stateFile, emitted, stores, written >>
       /\ UNCHANGED Config
       /\ UNCHANGED ExecVars
       /\ UNCHANGED CallVars

\* updateVector 1199: table.add([updated]); on success the caller's bookkeeping
updateVectorAdd(t) ==
    LET tk == tasks[t]
    IN /\ tk.pc = "add"
       /\ \/ /\ table' = Append(table, updated(tk.snap, tk.ts))
             /\ Succeeded(t)
             /\ UNCHANGED failBudget
          \/ \* the add rejects: into the catch block
             /\ failBudget > 0
             /\ failBudget' = failBudget - 1
             /\ tasks' = [tasks EXCEPT ![t] = [tk EXCEPT !.pc = "rec"]]
             /\ UNCHANGED << table, state, stateFile, emitted, written >>
       /\ UNCHANGED << now, stores >>
       /\ UNCHANGED Config
       /\ UNCHANGED ExecVars
       /\ UNCHANGED CallVars

\* updateVector 1210-1216: the catch block looks the id up again; the error is
\* rethrown at once when a row is found
updateVectorRecover(t) ==
    LET tk == tasks[t]
        rows == RowsWithId(table, tk.snap.id)
    IN /\ tk.pc = "rec"
       /\ IF rows # << >>
          THEN Failed(t)
          ELSE /\ tasks' = [tasks EXCEPT ![t] = [tk EXCEPT !.pc = "readd"]]
               /\ UNCHANGED << state, stateFile, emitted, written >>
       /\ UNCHANGED << table, failBudget, now, stores >>
       /\ UNCHANGED Config
       /\ UNCHANGED ExecVars
       /\ UNCHANGED CallVars

\* (variant of updateVectorReAdd that rethrows without adding the backup)
updateVectorReAddNever(t) ==
    /\ tasks[t].pc = "readd"
    /\ Failed(t)
    /\ UNCHANGED << table, failBudget, now, stores >>
    /\ UNCHANGED Config
    /\ UNCHANGED ExecVars
    /\ UNCHANGED CallVars

\* updateVector 1217-1229: table.add([backupRecord]); a failure of this add is
\* logged and swallowed, and the first error is rethrown in every case
updateVectorReAdd(t) ==
    LET tk == tasks[t]
    IN /\ tk.pc = "readd"
       /\ \/ /\ table' = Append(table, tk.snap)
             /\ UNCHANGED failBudget
          \/ /\ failBudget > 0
             /\ failBudget' = failBudget - 1
             /\ UNCHANGED table
       /\ Failed(t)
       /\ UNCHANGED << now, stores >>
       /\ UNCHANGED Config
       /\ UNCHANGED ExecVars
       /\ UNCHANGED CallVars

\* ------------------------------------------------------------------ EmbeddingMigration
DEFAULT_BATCH_SIZE == 50

\* Variables the worker loop's own steps leave alone.
Ambient == << aborted, nInst, migrationInstance, calls, failBudget,
              stores, controls, restarts, backup, written >>

\* runMigration(batchSize) from its call to its first await: the loop test
\* (status === 'running', signal not aborted) and the cursor read that opens
\* fetchNextBatch.  The result holds the task the call leaves behind, if any.
runMigration(i, st, isAborted, batchSize) ==
    IF st.status = "running" /\ ~isAborted
    THEN << [NewTask EXCEPT !.inst = i, !.cur = st.migratedUntil, !.bs = batchSize] >>
    ELSE << >>

\* runMigration 478-482, reached again after the sleep that ends an iteration
runMigrationLoop(t) ==
    LET tk == tasks[t]
        again == runMigration(tk.inst, state[tk.inst], aborted[tk.inst], tk.bs)
    IN /\ tk.pc = "loop"
       /\ tasks' = IF again = << >> THEN RemoveAt(tasks, t)
                   ELSE [tasks EXCEPT ![t] = again[1]]
       /\ UNCHANGED << table, now, state, stateFile, emitted >>
       /\ UNCHANGED Ambient
       /\ UNCHANGED ExecVars
       /\ UNCHANGED CallVars

\* (variant of completeMigration that leaves the status as it was)
completeMigrationKeepsStatus(st, time) ==
    [st EXCEPT !.completedAt = time]

\* completeMigration 628-649: status, completedAt; the caller saves and emits
completeMigration(st, time) ==
    [st EXCEPT !.status = "completed", !.completedAt = time]

\* runMigration 485-494: the query of fetchNextBatch resolves; an empty batch
\* completes the migration, any other batch enters processBatch.
runMigrationFetch(t, time) ==
    LET tk == tasks[t]
        batch == fetchNextBatch(table, tk.cur, tk.bs)
        done == completeMigration(state[tk.inst], time)
    IN /\ tk.pc = "fetch"
       /\ IF batch = << >>
          THEN /\ state' = [state EXCEPT ![tk.inst] = done]
               /\ stateFile' = done
               /\ emitted' = emitted \cup {"complete"}
               /\ tasks' = RemoveAt(tasks, t)
               /\ now' = time
          ELSE /\ tasks' = [tasks EXCEPT ![t] =
                              [tk EXCEPT !.pc = "read", !.batch = batch, !.idx = 1]]
               /\ UNCHANGED << state, stateFile, emitted, now >>
       /\ UNCHANGED table
       /\ UNCHANGED Ambient
       /\ UNCHANGED ExecVars
       /\ UNCHANGED CallVars

\* Variables the control calls leave alone.
Data == << table, now, stores, restarts, written >>

\* getStatus 276-284 on object i (0: no object): a load that finds the file
\* corrupt calls backupCorruptedState 198-210, which copies the file and
\* swallows a failure of the copy.
backupCorruptedState(i) ==
    IF i # 0 /\ state[i].status = "null" /\ stateFile = Corrupt
    THEN \/ backup' = TRUE /\ UNCHANGED failBudget
         \/ failBudget > 0 /\ failBudget' = failBudget - 1 /\ UNCHANGED backup
    ELSE UNCHANGED << backup, failBudget >>

Control ==
    /\ controls < MaxControl
    /\ controls' = controls + 1

\* start 372-375: getStatus(), which loads the state file into a null
\* this.state, and the `running` test.
start(i, batchSize) ==
    LET st == getStatus(i)
    IN /\ i # 0
       /\ Control
       /\ state' = [state EXCEPT ![i] = st]
       /\ IF StatusOf(st) = "running"
          THEN UNCHANGED calls        \* throws '迁移已在进行中'
          ELSE /\ Len(calls) < MaxCalls
               /\ calls' = Append(calls, [NewCall EXCEPT !.inst = i, !.bs = batchSize])
       /\ UNCHANGED << stateFile, aborted, nInst, migrationInstance, tasks, emitted >>
       /\ backupCorruptedState(i)
       /\ UNCHANGED Data
       /\ UNCHANGED ExecVars
       /\ UNCHANGED CallVars

\* start 379-387: the initial state
initialState(totalRecords, batchSize) ==
    [NoState EXCEPT !.status = "running", !.totalRecords = totalRecords,
                    !.batchSize = batchSize]

\* start 378-388: count the rows, install the initial state, saveState
startInit(c) ==
    LET cl == calls[c]
        st == initialState(count(table), cl.bs)
    IN /\ cl.kind = "start"
       /\ cl.pc = "init"
       /\ state' = [state EXCEPT ![cl.inst] = st]
       /\ stateFile' = st
       /\ calls' = [calls EXCEPT ![c] = [cl EXCEPT !.pc = "spawn"]]
       /\ written' = [written EXCEPT ![cl.inst] = [id \in Ids |-> 0]]
       /\ UNCHANGED << aborted, nInst, migrationInstance, tasks, emitted, controls >>
       /\ UNCHANGED << table, now, failBudget, stores, restarts, backup >>
       /\ UNCHANGED ExecVars
       /\ UNCHANGED CallVars

\* start 390-413 / resume 453-469: a new AbortController and the background
\* runMigration call (no await in between).
spawn(c, batchSize) ==
    LET cl == calls[c]
    IN /\ aborted' = [aborted EXCEPT ![cl.inst] = FALSE]
       /\ tasks' = tasks \o runMigration(cl.inst, state[cl.inst], FALSE, batchSize)
       /\ Len(tasks') <= MaxTasks
       /\ calls' = RemoveAt(calls, c)
       /\ UNCHANGED << state, stateFile, nInst, migrationInstance, emitted, controls >>
       /\ UNCHANGED << failBudget, backup >>
       /\ UNCHANGED Data

startSpawn(c) ==
    /\ calls[c].kind = "start"
    /\ calls[c].pc = "spawn"
    /\ spawn(c, calls[c].bs)
    /\ UNCHANGED ExecVars
    /\ UNCHANGED CallVars

\* pause 419-435 (MemoryStore.pauseMigration 1881-1885)
pause ==
    LET i == migrationInstance
        st == [state[i] EXCEPT !.status = "paused"]
    IN /\ i # 0
       /\ state[i].status = "running"
       /\ Control
       /\ aborted' = [aborted EXCEPT ![i] = TRUE]
       /\ state' = [state EXCEPT ![i] = st]
       /\ stateFile' = st
       /\ UNCHANGED << nInst, migrationInstance, tasks, calls, emitted >>
       /\ UNCHANGED << failBudget, backup >>
       /\ UNCHANGED Data
       /\ UNCHANGED ExecVars
       /\ UNCHANGED CallVars

\* resume 441-448 (MemoryStore.resumeMigration 1890-1894): getStatus() and the
\* `paused` test
resume ==
    LET i == migrationInstance
        st == getStatus(i)
    IN /\ i # 0
       /\ Control
       /\ state' = [state EXCEPT ![i] = st]
       /\ IF StatusOf(st) # "paused"
          THEN UNCHANGED calls        \* throws '没有暂停的迁移可继续'
          ELSE /\ Len(calls) < MaxCalls
               /\ calls' = Append(calls, [NewCall EXCEPT !.kind = "resume", !.inst = i,
                                                         !.pc = "run"])
       /\ UNCHANGED << stateFile, aborted, nInst, migrationInstance, tasks, emitted >>
       /\ backupCorruptedState(i)
       /\ UNCHANGED Data
       /\ UNCHANGED ExecVars
       /\ UNCHANGED CallVars

\* resume 450-451: status = 'running', saveState
resumeRun(c) ==
    LET cl == calls[c]
        st == [state[cl.inst] EXCEPT !.status = "running"]
    IN /\ cl.kind = "resume"
       /\ cl.pc = "run"
       /\ state' = [state EXCEPT ![cl.inst] = st]
       /\ stateFile' = st
       /\ calls' = [calls EXCEPT ![c] = [cl EXCEPT !.pc = "spawn"]]
       /\ UNCHANGED << aborted, nInst, migrationInstance, tasks, emitted, controls >>
       /\ UNCHANGED << failBudget, backup >>
       /\ UNCHANGED Data
       /\ UNCHANGED ExecVars
       /\ UNCHANGED CallVars

resumeSpawn(c) ==
    /\ calls[c].kind = "resume"
    /\ calls[c].pc = "spawn"
    /\ spawn(c, state[calls[c].inst].batchSize)
    /\ UNCHANGED ExecVars
    /\ UNCHANGED CallVars

\* retryFailed 659-672 (MemoryStore.retryMigration 1865-1876): the records to
\* retry, all failed ones or those whose id is in recordIds
retryFailed(recordIds) ==
    LET i == migrationInstance
        toRetry == SelectSeq(state[i].failedRecords, LAMBDA f : f \in recordIds)
    IN /\ i # 0
       /\ state[i].status # "null"
       /\ toRetry # << >>
       /\ Control
       /\ Len(tasks) < MaxTasks
       /\ tasks' = Append(tasks,
                      [NewTask EXCEPT !.kind = "retry", !.inst = i, !.pc = "read",
                                      !.batch = [k \in 1 .. Len(toRetry) |->
                                                   [id |-> toRetry[k], createdAt |-> 0]],
                                      !.idx = 1])
       /\ UNCHANGED << state, stateFile, aborted, nInst, migrationInstance, calls,
                       emitted >>
       /\ UNCHANGED << failBudget, backup >>
       /\ UNCHANGED Data
       /\ UNCHANGED ExecVars
       /\ UNCHANGED CallVars

\* ------------------------------------------------------------------ MemoryStore (migration)
\* getMigrationStatus 1781-1792
getMigrationStatus ==
    IF migrationInstance = 0 THEN NoState ELSE getStatus(migrationInstance)

\* migrateToModel 1814-1821: the `running` test on the current instance
migrateToModel(autoStart) ==
    LET i == migrationInstance
    IN /\ Control
       /\ state' = IF i = 0 THEN state ELSE [state EXCEPT ![i] = getStatus(i)]
       /\ IF StatusOf(getMigrationStatus) = "running"
          THEN UNCHANGED calls    \* {success: false, error: '已有迁移任务在进行中'}
          ELSE /\ Len(calls) < MaxCalls
               /\ calls' = Append(calls, [NewCall EXCEPT !.kind = "migrate",
                                                         !.pc = "create",
                                                         !.auto = autoStart,
                                                         !.bs = DEFAULT_BATCH_SIZE])
       /\ UNCHANGED << stateFile, aborted, nInst, migrationInstance, tasks, emitted >>
       /\ backupCorruptedState(i)
       /\ UNCHANGED Data
       /\ UNCHANGED ExecVars
       /\ UNCHANGED CallVars

\* migrateToModel 1823-1842: a new EmbeddingMigration replaces migrationInstance;
\* with autoStart its start() runs to the `running` test, otherwise getStatus()
\* alone loads the state file.
migrateCreate(c) ==
    LET cl == calls[c]
        i == nInst + 1
        st == loadState
    IN /\ cl.kind = "migrate"
       /\ cl.pc = "create"
       /\ nInst < MaxInst
       /\ nInst' = i
       /\ migrationInstance' = i
       /\ state' = [state EXCEPT ![i] = st]
       /\ aborted' = [aborted EXCEPT ![i] = FALSE]
       /\ calls' = IF cl.auto /\ StatusOf(st) # "running"
                   THEN [calls EXCEPT ![c] =
                           [cl EXCEPT !.kind = "start", !.inst = i, !.pc = "init"]]
                   ELSE RemoveAt(calls, c)
       /\ UNCHANGED << stateFile, tasks, emitted, controls >>
       /\ backupCorruptedState(i)
       /\ UNCHANGED Data
       /\ UNCHANGED ExecVars
       /\ UNCHANGED CallVars

\* ------------------------------------------------------------------ process restart
\* The process stops and starts again: every task and object is gone, the table
\* and the state file stay.
Restart ==
    /\ restarts < MaxRestarts
    /\ restarts' = restarts + 1
    /\ state' = [i \in Insts |-> NoState]
    /\ aborted' = [i \in Insts |-> FALSE]
    /\ nInst' = 0
    /\ migrationInstance' = 0
    /\ tasks' = << >>
    /\ calls' = << >>
    /\ UNCHANGED << table, now, stateFile, emitted, failBudget, stores,
                    controls, backup, written >>
    /\ UNCHANGED ExecVars
    /\ UNCHANGED CallVars

\* ------------------------------------------------------------------ specifications
Tasks == 1 .. Len(tasks)
Calls == 1 .. Len(calls)

\* one step of a runMigration loop or of a retryFailed call
TaskStep(t) ==
    \/ \E time \in Clock : processEntry(t, time)
    \/ updateVectorDelete(t)
    \/ updateVectorAdd(t)
    \/ updateVectorRecover(t)
    \/ updateVectorReAdd(t)
    \/ runMigrationLoop(t)
    \/ \E time \in Clock : runMigrationFetch(t, time)

\* one step of a start / resume / migrateToModel call past its first await
CallStep(c) ==
    \/ startInit(c)
    \/ startSpawn(c)
    \/ resumeRun(c)
    \/ resumeSpawn(c)
    \/ migrateCreate(c)

\* The migration engine: control calls, worker loops, retries, injected
\* failures and process restarts, with no foreground writes.
Next ==
    \/ \E t \in Tasks, time \in Clock : processEntry(t, time)
    \/ \E t \in Tasks : updateVectorDelete(t)
    \/ \E t \in Tasks : updateVectorAdd(t)
    \/ \E t \in Tasks : updateVectorRecover(t)
    \/ \E t \in Tasks : updateVectorReAdd(t)
    \/ \E t \in Tasks : runMigrationLoop(t)
    \/ \E t \in Tasks, time \in Clock : runMigrationFetch(t, time)
    \/ \E bs \in 1 .. MaxBatch : start(migrationInstance, bs)
    \/ \E c \in Calls : startInit(c)
    \/ \E c \in Calls : startSpawn(c)
    \/ pause
    \/ resume
    \/ \E c \in Calls : resumeRun(c)
    \/ \E c \in Calls : resumeSpawn(c)
    \/ \E ids \in {Ids} \cup {{id} : id \in Ids} : retryFailed(ids)
    \/ \E autoStart \in BOOLEAN : migrateToModel(autoStart)
    \/ \E c \in Calls : migrateCreate(c)
    \/ Restart

Spec == Init /\ [][Next]_vars

\* The same engine in a process that is not restarted, under the scheduling of
\* the event loop: a task or call whose await can resolve is resumed.
NextLive ==
    \/ \E t \in Tasks, time \in Clock : processEntry(t, time)
    \/ \E t \in Tasks : updateVectorDelete(t)
    \/ \E t \in Tasks : updateVectorAdd(t)
    \/ \E t \in Tasks : updateVectorRecover(t)
    \/ \E t \in Tasks : updateVectorReAdd(t)
    \/ \E t \in Tasks : runMigrationLoop(t)
    \/ \E t \in Tasks, time \in Clock : runMigrationFetch(t, time)
    \/ \E bs \in 1 .. MaxBatch : start(migrationInstance, bs)
    \/ \E c \in Calls : startInit(c)
    \/ \E c \in Calls : startSpawn(c)
    \/ pause
    \/ resume
    \/ \E c \in Calls : resumeRun(c)
    \/ \E c \in Calls : resumeSpawn(c)
    \/ \E ids \in {Ids} \cup {{id} : id \in Ids} : retryFailed(ids)
    \/ \E autoStart \in BOOLEAN : migrateToModel(autoStart)
    \/ \E c \in Calls : migrateCreate(c)

Fairness ==
    /\ \A t \in 1 .. MaxTasks : WF_vars(t \in Tasks /\ TaskStep(t))
    /\ \A c \in 1 .. MaxCalls : WF_vars(c \in Calls /\ CallStep(c))

LiveSpec == Init /\ [][NextLive]_vars /\ Fairness

\* Foreground writes beside the migration the application starts once after a
\* model change (initialize, detectModelChange, migrateToModel with autoStart):
\* store() calls interleaved with the steps of its worker loop.
NextStore ==
    \/ \E id \in Ids, embedModel \in {Target, Other}, embedOk \in BOOLEAN, time \in Clock :
          store(id, embedModel, embedOk, time)
    \/ \E t \in Tasks, time \in Clock : processEntry(t, time)
    \/ \E t \in Tasks : updateVectorDelete(t)
    \/ \E t \in Tasks : updateVectorAdd(t)
    \/ \E t \in Tasks : updateVectorRecover(t)
    \/ \E t \in Tasks : updateVectorReAdd(t)
    \/ \E t \in Tasks : runMigrationLoop(t)
    \/ \E t \in Tasks, time \in Clock : runMigrationFetch(t, time)
    \/ \E c \in Calls : startInit(c)
    \/ \E c \in Calls : startSpawn(c)
    \/ migrationInstance = 0 /\ calls = << >> /\ migrateToModel(TRUE)
    \/ \E c \in Calls : migrateCreate(c)

StoreSpec == Init /\ [][NextStore]_vars

\* A process that starts beside a state file an earlier process left corrupt
\* (a crash inside writeFile, a hand edit): the calls that load the file, and
\* the migration they start.
InitLoad ==
    /\ table = InitTable
    /\ now = InitRows + 1
    /\ stateFile = Corrupt
    /\ state = [i \in Insts |-> NoState]
    /\ aborted = [i \in Insts |-> FALSE]
    /\ nInst = 0
    /\ migrationInstance = 0
    /\ tasks = << >>
    /\ calls = << >>
    /\ emitted = {}
    /\ failBudget = MaxFail
    /\ stores = 0
    /\ controls = 0
    /\ restarts = 0
    /\ backup = FALSE
    /\ written = [i \in Insts |-> [id \in Ids |-> 0]]
    /\ ExecInit
    /\ systemPrompt = TRUE
    /\ input = NoCall
    /\ output = NoCall

NextLoad ==
    \/ \E t \in Tasks, time \in Clock : processEntry(t, time)
    \/ \E t \in Tasks : updateVectorDelete(t)
    \/ \E t \in Tasks : updateVectorAdd(t)
    \/ \E t \in Tasks : updateVectorRecover(t)
    \/ \E t \in Tasks : updateVectorReAdd(t)
    \/ \E t \in Tasks : runMigrationLoop(t)
    \/ \E t \in Tasks, time \in Clock : runMigrationFetch(t, time)
    \/ \E bs \in 1 .. MaxBatch : start(migrationInstance, bs)
    \/ \E c \in Calls : startInit(c)
    \/ \E c \in Calls : startSpawn(c)
    \/ resume
    \/ \E autoStart \in BOOLEAN : migrateToModel(autoStart)
    \/ \E c \in Calls : migrateCreate(c)

LoadSpec == InitLoad /\ [][NextLoad]_vars

\* ------------------------------------------------------------------ AgentExecutor
\* (packages/runtime/src/executor/index.ts)  run() consumes one inbound
\* message at a time and awaits processMessage, so one turn is in flight; the
\* awaits inside a turn are step boundaries at which the public clearSession
\* may run.

\* texts of OutboundMessage.content
DONE == "done"       \* line 197: the text for an empty result.content
ERROR == "error"     \* line 404: the text of createErrorResponse
Contents == {"", "text"}                         \* response.content of gateway.chat
Results == {"", "result"}                        \* what tools.execute resolves to

\* runTool 358-362: the object made when tools.execute rejects (the message of
\* the error goes to the log only), and the JSON text runTool returns for it
runToolFailure == [error |-> "tool failed", tool |-> "name"]
FAILURE_JSON == "{\"error\":\"tool failed\",\"tool\":\"name\"}"

\* runTool 355-363: what a tool call leaves in its tool message
Observations == Results \cup {FAILURE_JSON}

\* this.conversationHistory.get(sessionKey) ?? []
get(map, key) ==
    LET found == SelectSeq(map, LAMBDA e : e.key = key)
    IN IF found = << >> THEN << >> ELSE found[1].messages

has(map, key) == \E k \in 1 .. Len(map) : map[k].key = key

\* Map.prototype.set: a new key goes last, an existing key keeps its place
set(map, key, messages) ==
    IF has(map, key)
    THEN [k \in 1 .. Len(map) |->
            IF map[k].key = key THEN [key |-> key, messages |-> messages] ELSE map[k]]
    ELSE Append(map, [key |-> key, messages |-> messages])

\* Map.prototype.delete
delete(map, key) == SelectSeq(map, LAMBDA e : e.key # key)

\* buildMessages 210-234
buildMessages(history, n) ==
    (IF systemPrompt THEN << Message("system", 0, FALSE) >> ELSE << >>)
        \o history \o << Message("user", n, FALSE) >>

\* (variant of withoutSystem that passes every message on)
withoutSystemKeepsAll(messages) == messages

\* processMessage 192: messages.slice(1)
withoutSystem(messages) == Tail(messages)

\* updateHistory 370-372: history.slice(-MAX_HISTORY_PER_SESSION)
trimmed(history) ==
    IF Len(history) > MAX_HISTORY_PER_SESSION
    THEN SubSeq(history, Len(history) - MAX_HISTORY_PER_SESSION + 1, Len(history))
    ELSE history

\* (variant of trimSessions that deletes nothing)
trimSessionsNever(map) == map

\* trimSessions 383-395: delete the first size - MAX_SESSIONS keys
trimSessions(map) ==
    IF Len(map) <= MAX_SESSIONS THEN map
    ELSE SubSeq(map, Len(map) - MAX_SESSIONS + 1, Len(map))

\* updateHistory 368-378
updateHistory(sessionKey, history) ==
    trimSessions(set(conversationHistory, sessionKey, trimmed(history)))

\* run 155-167 and the loop test of 145: the response is published, then the
\* next message is awaited while `running` holds
nextMessage == IF running THEN NoTurn ELSE Stopped

\* processMessage 194-200: the turn ends with an OutboundMessage after the
\* history was updated with everything but the first message
returnResult(messages, content, outcome) ==
    /\ conversationHistory' = updateHistory(turn.key, withoutSystem(messages))
    /\ lastUpdate' = [lastUpdate EXCEPT ![turn.key] = turn.n]
    /\ reply' = [n |-> turn.n, key |-> turn.key, outcome |-> outcome,
                 content |-> IF content = "" THEN DONE ELSE content]
    /\ turn' = nextMessage

\* run 147-155, processMessage 181-189, runReActLoop 239-250: a message is
\* consumed, the messages are built from the stored history and the first
\* iteration begins.  Session keys are interchangeable, so the k-th message
\* is taken to come from one of the first k keys.
processMessage(key) ==
    /\ turn.pc = "idle"
    /\ turns < MaxTurns
    /\ key <= turns + 1
    /\ turns' = turns + 1
    /\ turn' = [pc |-> "chat", key |-> key, n |-> turns + 1,
                messages |-> buildMessages(get(conversationHistory, key), turns + 1),
                iteration |-> 1, lastContent |-> ""]
    /\ UNCHANGED << conversationHistory, reply, systemPrompt, running, lastUpdate >>
    /\ UNCHANGED MemoryVars
    /\ UNCHANGED CallVars

\* selectModel or gateway.chat rejects: processMessage 201-204
chatFails ==
    /\ turn.pc = "chat"
    /\ reply' = [n |-> turn.n, key |-> turn.key, outcome |-> "error",
                 content |-> ERROR]
    /\ turn' = nextMessage
    /\ UNCHANGED << conversationHistory, systemPrompt, running, lastUpdate, turns >>
    /\ UNCHANGED MemoryVars
    /\ UNCHANGED CallVars

\* runReActLoop 263-275: a response without tool calls is the final reply
chatFinal(content) ==
    /\ turn.pc = "chat"
    /\ returnResult(Append(turn.messages,
                           Message("assistant", turn.n, FALSE)),
                    content, "final")
    /\ UNCHANGED << systemPrompt, running, turns >>
    /\ UNCHANGED MemoryVars
    /\ UNCHANGED CallVars

\* runReActLoop 263-278: a response with tool calls
chatToolCalls ==
    /\ turn.pc = "chat"
    /\ turn' = [turn EXCEPT !.pc = "tool",
                            !.messages = Append(@, Message("assistant", turn.n, TRUE))]
    /\ UNCHANGED << conversationHistory, reply, systemPrompt, running, lastUpdate, turns >>
    /\ UNCHANGED MemoryVars
    /\ UNCHANGED CallVars

\* (variant of executeToolCalls whose loop test always passes)
executeToolCallsAgain(result) ==
    /\ turn.pc = "tool"
    /\ turn' = [turn EXCEPT !.pc = "chat",
                            !.messages = Append(@, Message("tool", turn.n, FALSE)),
                            !.iteration = @ + 1,
                            !.lastContent = result]
    /\ UNCHANGED << conversationHistory, reply, systemPrompt, running, lastUpdate, turns >>
    /\ UNCHANGED MemoryVars
    /\ UNCHANGED CallVars

\* executeToolCalls 330-350 (one tool call per response), then the loop test of
\* runReActLoop 246 with iterations left
executeToolCalls(result) ==
    /\ turn.pc = "tool"
    /\ turn.iteration < maxIterations
    /\ turn' = [turn EXCEPT !.pc = "chat",
                            !.messages = Append(@, Message("tool", turn.n, FALSE)),
                            !.iteration = @ + 1,
                            !.lastContent = result]
    /\ UNCHANGED << conversationHistory, reply, systemPrompt, running, lastUpdate, turns >>
    /\ UNCHANGED MemoryVars
    /\ UNCHANGED CallVars

\* executeToolCalls 330-350, then the loop test of runReActLoop 246 fails:
\* 281-282 return { content: lastContent }
loopExhausted(result) ==
    /\ turn.pc = "tool"
    /\ turn.iteration >= maxIterations
    /\ returnResult(Append(turn.messages, Message("tool", turn.n, FALSE)),
                    result, "exhausted")
    /\ UNCHANGED << systemPrompt, running, turns >>
    /\ UNCHANGED MemoryVars
    /\ UNCHANGED CallVars

\* clearSession 433-437
clearSession(key) ==
    /\ has(conversationHistory, key)
    /\ conversationHistory' = delete(conversationHistory, key)
    /\ UNCHANGED << turn, reply, systemPrompt, running, lastUpdate, turns >>
    /\ UNCHANGED MemoryVars
    /\ UNCHANGED CallVars

\* stop 173-176
stop ==
    /\ running
    /\ running' = FALSE
    /\ UNCHANGED << conversationHistory, turn, reply, systemPrompt, lastUpdate, turns >>
    /\ UNCHANGED MemoryVars
    /\ UNCHANGED CallVars

InitExec ==
    /\ table = InitTable
    /\ now = InitRows + 1
    /\ stateFile = NoState
    /\ state = [i \in Insts |-> NoState]
    /\ aborted = [i \in Insts |-> FALSE]
    /\ nInst = 0
    /\ migrationInstance = 0
    /\ tasks = << >>
    /\ calls = << >>
    /\ emitted = {}
    /\ failBudget = MaxFail
    /\ stores = 0
    /\ controls = 0
    /\ restarts = 0
    /\ backup = FALSE
    /\ written = [i \in Insts |-> [id \in Ids |-> 0]]
    /\ ExecInit
    /\ systemPrompt \in BOOLEAN
    /\ input = NoCall
    /\ output = NoCall

NextExec ==
    \/ \E key \in Keys : processMessage(key)
    \/ chatFails
    \/ \E content \in Contents : chatFinal(content)
    \/ chatToolCalls
    \/ \E result \in Observations : executeToolCalls(result)
    \/ \E result \in Observations : loopExhausted(result)
    \/ \E key \in Keys : clearSession(key)
    \/ stop

ExecSpec == InitExec /\ [][NextExec]_vars

\* ------------------------------------------------------------------ AgentLoop
\* (part_015)  The other executor variant, built by src/src/index.ts.  Its
\* sessions live in a SessionStore, modelled in conversationHistory; the
\* messages it sends to the model are built by a ContextBuilder and are not
\* kept in the model.

NONE == "none"                 \* run 121: no OutboundMessage is published
NO_CONTENT == "no content"     \* processMessage 268: the text for an empty finalContent

\* sessionStore.addMessage(sessionKey, role, content), 275-276
addMessage(map, key, message) ==
    set(map, key, Append(get(map, key), message))

\* processMessage 267-291: the pair is stored and the reply returned; run
\* 121-124 publishes it
loopReturn(finalContent, outcome) ==
    /\ conversationHistory' =
           addMessage(addMessage(conversationHistory, turn.key,
                                 Message("user", turn.n, FALSE)),
                      turn.key, Message("assistant", turn.n, FALSE))
    /\ lastUpdate' = [lastUpdate EXCEPT ![turn.key] = turn.n]
    /\ reply' = [n |-> turn.n, key |-> turn.key, outcome |-> outcome,
                 content |-> IF finalContent = "" THEN NO_CONTENT ELSE finalContent]
    /\ turn' = nextMessage

\* run 118-120, processMessage 141-177: a message is consumed and the first
\* iteration begins
loopProcessMessage(key) ==
    /\ turn.pc = "idle"
    /\ turns < MaxTurns
    /\ key <= turns + 1
    /\ turns' = turns + 1
    /\ turn' = [pc |-> "chat", key |-> key, n |-> turns + 1, messages |-> << >>,
                iteration |-> 1, lastContent |-> ""]
    /\ UNCHANGED << conversationHistory, reply, systemPrompt, running, lastUpdate >>
    /\ UNCHANGED MemoryVars
    /\ UNCHANGED CallVars

\* analyzeIntent or provider.chat rejects (190, 216): processMessage has no
\* handler, the catch of run 125-127 logs the error
loopChatFails ==
    /\ turn.pc = "chat"
    /\ reply' = [n |-> turn.n, key |-> turn.key, outcome |-> "error",
                 content |-> NONE]
    /\ turn' = nextMessage
    /\ UNCHANGED << conversationHistory, systemPrompt, running, lastUpdate, turns >>
    /\ UNCHANGED MemoryVars
    /\ UNCHANGED CallVars

\* processMessage 261-264: a response without tool calls ends the loop
loopChatFinal(content) ==
    /\ turn.pc = "chat"
    /\ loopReturn(content, "final")
    /\ UNCHANGED << systemPrompt, running, turns >>
    /\ UNCHANGED MemoryVars
    /\ UNCHANGED CallVars

\* processMessage 227-233: a response with tool calls
loopChatToolCalls ==
    /\ turn.pc = "chat"
    /\ turn' = [turn EXCEPT !.pc = "tool"]
    /\ UNCHANGED << conversationHistory, reply, systemPrompt, running, lastUpdate,
                    turns >>
    /\ UNCHANGED MemoryVars
    /\ UNCHANGED CallVars

\* processMessage 236-260 (one tool call per response), then the loop test of
\* 176 with iterations left
loopToolResult(result) ==
    /\ turn.pc = "tool"
    /\ turn.iteration < maxIterations
    /\ turn' = [turn EXCEPT !.pc = "chat", !.iteration = @ + 1,
                            !.lastContent = result]
    /\ UNCHANGED << conversationHistory, reply, systemPrompt, running, lastUpdate,
                    turns >>
    /\ UNCHANGED MemoryVars
    /\ UNCHANGED CallVars

\* processMessage 236-260, then the loop test of 176 fails with finalContent
\* still empty
loopToolExhausted(result) ==
    /\ turn.pc = "tool"
    /\ turn.iteration >= maxIterations
    /\ loopReturn("", "exhausted")
    /\ UNCHANGED << systemPrompt, running, turns >>
    /\ UNCHANGED MemoryVars
    /\ UNCHANGED CallVars

NextLoop ==
    \/ \E key \in Keys : loopProcessMessage(key)
    \/ loopChatFails
    \/ \E content \in Contents : loopChatFinal(content)
    \/ loopChatToolCalls
    \/ \E result \in Results : loopToolResult(result)
    \/ \E result \in Results : loopToolExhausted(result)
    \/ stop

\* both variants start alike; the system prompt of AgentLoop is the
\* ContextBuilder's business
InitLoop == InitExec /\ systemPrompt

LoopSpec == InitLoop /\ [][NextLoop]_vars

\* ------------------------------------------------------------------ ModelRouter
\* Two ModelRouter classes exist: the core one (providers/router, used by
\* AgentLoop) and the one of the providers package (used by AgentExecutor).
\* The pool `models` is the map provider -> ModelConfig[] in iteration order,
\* flattened; a model is named by its position in that order.  The
\* complexity-derived level of the turn (complexityToLevel(calculateComplexity))
\* and its tool need (needsToolCalling) are functions of the messages and are
\* drawn as inputs beside the content.
LEVEL_PRIORITY == [fast |-> 1, low |-> 2, medium |-> 3, high |-> 4, ultra |-> 5]
Levels == DOMAIN LEVEL_PRIORITY
ModelConfigs == [level : Levels, vision : BOOLEAN, tool : BOOLEAN]
Pools == UNION {[1..n -> ModelConfigs] : n \in 0..MaxModels}

abs(x) == IF x < 0 THEN -x ELSE x

\* Array.prototype.sort with the comparator (a, b) => key(a) - key(b): stable,
\* ascending; gives the positions of the elements in sorted order.
sort(keys) ==
    LET n == Len(keys)
        rank(i) == Cardinality({j \in 1..n : \/ keys[j] < keys[i]
                                             \/ keys[j] = keys[i] /\ j < i}) + 1
    IN  [p \in 1..n |-> CHOOSE i \in 1..n : rank(i) = p]

\* key is a function from the elements of s to their sort keys
sortBy(s, key) ==
    LET order == sort([p \in 1..Len(s) |-> key[s[p]]])
    IN  [p \in 1..Len(s) |-> s[order[p]]]

\* strings are sequences of characters
Chars == {"a", "A", "b"}
toLowerCase(s) == [i \in 1..Len(s) |-> IF s[i] = "A" THEN "a" ELSE s[i]]
includes(s, k) ==
    \E i \in 1..(Len(s) - Len(k) + 1) : SubSeq(s, i, i + Len(k) - 1) = k

\* results: a model of the pool, the configured chat model, or null
RouteResult(i, reason) == [model |-> i, reason |-> reason]
null == RouteResult(0, "null")
defaultResult == RouteResult(0, "chatModel")

\* rule.minLength / rule.maxLength are optional: << >> is undefined
matchRule(content, length, routing) ==
    LET contentLower == toLowerCase(content)
        sortedRules == sortBy(routing.rules,
                              [rule \in {routing.rules[k] : k \in 1..Len(routing.rules)}
                                  |-> 0 - rule.priority])
        passes(rule) ==
            /\ ~(rule.minLength # << >> /\ length < rule.minLength[1])
            /\ ~(rule.maxLength # << >> /\ length > rule.maxLength[1])
            /\ Len(rule.keywords) # 0
            /\ \E k \in 1..Len(rule.keywords) :
                   includes(contentLower, toLowerCase(rule.keywords[k]))
        hits == SelectSeq(sortedRules, passes)
    IN  IF hits = << >> THEN << >> ELSE << Head(hits) >>

positions(models) == [i \in 1..Len(models) |-> i]

collectVisionModels(models) ==
    SelectSeq(positions(models), LAMBDA i : models[i].vision)

selectVisionModel(r) ==
    LET visionModels == collectVisionModels(r.models)
        targetPriority == LEVEL_PRIORITY[r.level]
        sorted == sortBy(visionModels,
                         [i \in 1..Len(r.models) |->
                             IF r.max THEN 0 - LEVEL_PRIORITY[r.models[i].level]
                             ELSE LEVEL_PRIORITY[r.models[i].level]])
        \* the loop keeps the first element of the least |diff|
        best == Head(sortBy(sorted,
                     [i \in 1..Len(r.models) |->
                         abs(LEVEL_PRIORITY[r.models[i].level] - targetPriority)]))
    IN  IF visionModels = << >> THEN null ELSE RouteResult(best, "vision")

findCandidates(r, targetLevel, visionOnly, requireTool) ==
    SelectSeq(positions(r.models),
              LAMBDA i : /\ r.models[i].level = targetLevel
                         /\ ~(visionOnly /\ ~r.models[i].vision)
                         /\ ~(requireTool /\ ~r.models[i].tool))

buildCandidates(r, visionOnly, requireTool) ==
    SelectSeq(positions(r.models),
              LAMBDA i : /\ ~(visionOnly /\ ~r.models[i].vision)
                         /\ ~(requireTool /\ ~r.models[i].tool))

\* a variant that prefers the higher levels whatever the mode
filterByModeUpward(r, candidates, targetPriority) ==
    LET priority(i) == LEVEL_PRIORITY[r.models[i].level]
        filtered == SelectSeq(candidates, LAMBDA i : priority(i) - targetPriority >= 0)
    IN  IF filtered # << >> THEN filtered
        ELSE << Head(sortBy(candidates, [i \in 1..Len(r.models) |-> 0 - priority(i)])) >>

filterByMode(r, candidates, targetPriority) ==
    LET priority(i) == LEVEL_PRIORITY[r.models[i].level]
        diff(i) == priority(i) - targetPriority
    IN  IF r.max
        THEN LET filtered == SelectSeq(candidates, LAMBDA i : diff(i) >= 0)
             IN  IF Len(filtered) > 0 THEN filtered
                 ELSE SubSeq(sortBy(candidates,
                                    [i \in 1..Len(r.models) |-> 0 - priority(i)]), 1, 1)
        ELSE LET filtered == SelectSeq(candidates, LAMBDA i : diff(i) <= 0)
             IN  IF Len(filtered) > 0 THEN filtered
                 ELSE SubSeq(sortBy(candidates,
                                    [i \in 1..Len(r.models) |-> priority(i)]), 1, 1)

selectNearestModel(r, targetLevel, visionOnly, requireTool) ==
    LET targetPriority == LEVEL_PRIORITY[targetLevel]
        candidates == buildCandidates(r, visionOnly, requireTool)
        filtered == filterByMode(r, candidates, targetPriority)
        selected == sortBy(filtered,
                        [i \in 1..Len(r.models) |->
                            abs(LEVEL_PRIORITY[r.models[i].level] - targetPriority)])[1]
    IN  IF Len(candidates) = 0 THEN null ELSE RouteResult(selected, "nearest")

selectModelByLevel(r, targetLevel, visionOnly, requireTool) ==
    LET candidates == findCandidates(r, targetLevel, visionOnly, requireTool)
    IN  IF Len(candidates) = 0
        THEN selectNearestModel(r, targetLevel, visionOnly, requireTool)
        ELSE RouteResult(candidates[1], "level")

\* the core router
route(r) ==
    LET vision == selectVisionModel(r)
        ultra == selectModelByLevel(r, "ultra", FALSE, r.requireTool)
        result == selectModelByLevel(r, r.level, FALSE, r.requireTool)
    IN  IF ~r.auto THEN defaultResult
        ELSE IF r.hasImage /\ vision # null THEN vision
        ELSE IF r.max /\ ultra # null THEN ultra
        ELSE IF result # null THEN result
        ELSE defaultResult

fallbackIntent(r) ==
    LET matchedRule == matchRule(r.content, Len(r.content), r.routing)
        byRule == selectModelByLevel(r, matchedRule[1].level, r.hasImage, r.requireTool)
        result == selectModelByLevel(r, r.level, r.hasImage, r.requireTool)
    IN  IF /\ r.routing.enabled /\ Len(r.routing.rules) > 0
           /\ matchedRule # << >> /\ byRule # null
        THEN byRule
        ELSE IF result # null THEN result
        ELSE defaultResult

\* the router of the providers package: no tool filter, no max branch in route,
\* rules consulted whether or not routing.enabled
providersRoute(r) ==
    LET vision == selectVisionModel(r)
        result == selectModelByLevel(r, r.level, FALSE, FALSE)
    IN  IF ~r.auto THEN defaultResult
        ELSE IF r.hasImage /\ vision # null THEN vision
        ELSE IF result # null THEN result
        ELSE defaultResult

providersFallbackIntent(r) ==
    LET matchedRule == matchRule(r.content, Len(r.content), r.routing)
        byRule == selectModelByLevel(r, matchedRule[1].level, r.hasImage, FALSE)
        result == selectModelByLevel(r, r.level, r.hasImage, FALSE)
    IN  IF Len(r.routing.rules) > 0 /\ matchedRule # << >> /\ byRule # null
        THEN byRule
        ELSE IF result # null THEN result
        ELSE defaultResult

\* r.intent is the model the intent LLM names: 0 when there is no provider, the
\* call fails, or the reply names no model of the list
analyzeIntent(r) ==
    IF r.intent = 0 THEN providersFallbackIntent(r)
    ELSE IF r.hasImage /\ ~r.models[r.intent].vision THEN providersFallbackIntent(r)
    ELSE RouteResult(r.intent, "intent")

\* AgentExecutor.selectModel; the media are passed on the first iteration only
selectModel(r) ==
    IF r.iteration = 1 /\ r.auto THEN analyzeIntent(r)
    ELSE providersRoute([r EXCEPT !.hasImage = r.iteration = 1 /\ r.hasImage])

\* ---- the calls
\* the store and the executor as constructed, for the functions that touch
\* neither
IdleInit ==
    /\ table = InitTable
    /\ now = InitRows + 1
    /\ stateFile = NoState
    /\ state = [i \in Insts |-> NoState]
    /\ aborted = [i \in Insts |-> FALSE]
    /\ nInst = 0
    /\ migrationInstance = 0
    /\ tasks = << >>
    /\ calls = << >>
    /\ emitted = {}
    /\ failBudget = MaxFail
    /\ stores = 0
    /\ controls = 0
    /\ restarts = 0
    /\ backup = FALSE
    /\ written = [i \in Insts |-> [id \in Ids |-> 0]]
    /\ ExecInit
    /\ systemPrompt = TRUE

\* the function called on the input returns result
returns(result) ==
    /\ output = NoCall
    /\ output' = [fn |-> input.fn, result |-> result]
    /\ UNCHANGED input
    /\ UNCHANGED MemoryVars
    /\ UNCHANGED ExecVars

\* routing rules: one keyword rule, or two of different priority
Rule(priority, level) ==
    [priority |-> priority, keywords |-> << << "A" >> >>, minLength |-> << >>,
     maxLength |-> << >>, level |-> level]
Routings ==
    [enabled : BOOLEAN,
     rules : {<< >>, << Rule(1, "ultra") >>, << Rule(1, "ultra"), Rule(MaxPriority, "fast") >>}]
NoRouting == [enabled |-> TRUE, rules |-> << >>]
Contents1 == {<< "a" >>, << "b" >>}

NearestInputs ==
    [fn : {"selectNearestModel", "selectModelByLevel"}, models : Pools, max : BOOLEAN,
     targetLevel : Levels, visionOnly : BOOLEAN, requireTool : BOOLEAN]

RouteInputs ==
    [fn : {"route"}, models : Pools, max : BOOLEAN, auto : BOOLEAN,
     hasImage : BOOLEAN, level : Levels, requireTool : BOOLEAN,
     routing : [enabled : {TRUE}, rules : {<< >>, << Rule(1, "ultra") >>}],
     content : {<< "a" >>}]
    \cup
    [fn : {"providersRoute"}, models : Pools, max : BOOLEAN, auto : BOOLEAN,
     hasImage : BOOLEAN, level : Levels,
     routing : [enabled : {TRUE}, rules : {<< >>, << Rule(1, "ultra") >>}],
     content : {<< "a" >>}]
    \cup
    [fn : {"fallbackIntent"}, models : Pools, max : BOOLEAN,
     hasImage : BOOLEAN, level : Levels, requireTool : BOOLEAN,
     routing : Routings, content : Contents1]
    \cup
    [fn : {"providersFallbackIntent"}, models : Pools, max : BOOLEAN,
     hasImage : BOOLEAN, level : Levels,
     routing : Routings, content : Contents1]
    \cup
    {r \in [fn : {"selectModel"}, models : Pools, max : BOOLEAN, auto : BOOLEAN,
            hasImage : BOOLEAN, level : Levels, routing : {NoRouting},
            content : {<< "a" >>}, intent : 0..MaxModels, iteration : 1..maxIterations] :
        r.intent <= Len(r.models)}

callSelectNearestModel ==
    /\ input.fn = "selectNearestModel"
    /\ returns(selectNearestModel(input, input.targetLevel, input.visionOnly,
                                  input.requireTool))

callSelectModelByLevel ==
    /\ input.fn = "selectModelByLevel"
    /\ returns(selectModelByLevel(input, input.targetLevel, input.visionOnly,
                                  input.requireTool))

callRoute ==
    /\ input.fn = "route"
    /\ returns(route(input))

callProvidersRoute ==
    /\ input.fn = "providersRoute"
    /\ returns(providersRoute(input))

callFallbackIntent ==
    /\ input.fn = "fallbackIntent"
    /\ returns(fallbackIntent(input))

callProvidersFallbackIntent ==
    /\ input.fn = "providersFallbackIntent"
    /\ returns(providersFallbackIntent(input))

callSelectModel ==
    /\ input.fn = "selectModel"
    /\ returns(selectModel(input))

InitNearest == IdleInit /\ input \in NearestInputs /\ output = NoCall
NextNearest ==
    \/ callSelectNearestModel
    \/ callSelectModelByLevel
NearestSpec == InitNearest /\ [][NextNearest]_vars

InitRoute == IdleInit /\ input \in RouteInputs /\ output = NoCall
NextRoute ==
    \/ callRoute
    \/ callProvidersRoute
    \/ callFallbackIntent
    \/ callProvidersFallbackIntent
    \/ callSelectModel
RouteSpec == InitRoute /\ [][NextRoute]_vars

\* ------------------------------------------------------------------ vector column names
\* MemoryStore.modelIdToVectorColumn / vectorColumnToModelId on strings
\* (sequences of characters).  A thrown Error is the result Thrown.
Thrown == << "E", "r", "r", "o", "r" >>
VECTOR_PREFIX == << "v", "e", "c", "t", "o", "r", "_" >>

\* String.prototype.split with a one-character separator
RECURSIVE split(_, _)
split(s, sep) ==
    IF \A i \in 1..Len(s) : s[i] # sep THEN << s >>
    ELSE LET i == CHOOSE k \in 1..Len(s) : s[k] = sep /\ \A j \in 1..(k - 1) : s[j] # sep
         IN  << SubSeq(s, 1, i - 1) >> \o split(SubSeq(s, i + 1, Len(s)), sep)

\* Array.prototype.join
RECURSIVE join(_, _)
join(parts, sep) ==
    IF Len(parts) = 0 THEN << >>
    ELSE IF Len(parts) = 1 THEN parts[1]
    ELSE parts[1] \o sep \o join(Tail(parts), sep)

\* String.prototype.replace with a global one-character pattern
RECURSIVE replace(_, _, _)
replace(s, ch, by) ==
    IF s = << >> THEN << >>
    ELSE (IF Head(s) = ch THEN by ELSE << Head(s) >>) \o replace(Tail(s), ch, by)

startsWith(s, prefix) ==
    Len(s) >= Len(prefix) /\ SubSeq(s, 1, Len(prefix)) = prefix

modelIdToVectorColumn(modelId) ==
    LET parts == split(modelId, "/")
        provider == parts[1]
        model == join(Tail(parts), << "/" >>)
        safeModel == replace(replace(replace(replace(model,
                         "/", << "_", "s", "_" >>),
                         ":", << "_", "c", "_" >>),
                         ".", << "_", "d", "_" >>),
                         "-", << "_", "h", "_" >>)
    IN  IF provider = << >> \/ model = << >> THEN Thrown
        ELSE VECTOR_PREFIX \o provider \o << "_" >> \o safeModel

vectorColumnToModelId(column) ==
    LET parts == split(SubSeq(column, Len(VECTOR_PREFIX) + 1, Len(column)), "_")
        provider == parts[1]
        decoded(part) ==
            CASE part = << "s" >> -> << "/" >>
              [] part = << "c" >> -> << ":" >>
              [] part = << "d" >> -> << "." >>
              [] part = << "h" >> -> << "-" >>
              [] OTHER -> part
        modelParts == [i \in 1..(Len(parts) - 1) |-> decoded(parts[i + 1])]
        model == join(modelParts, << >>)
    IN  IF ~startsWith(column, VECTOR_PREFIX) THEN Thrown
        ELSE IF Len(parts) < 2 THEN Thrown
        ELSE provider \o << "/" >> \o model

\* model ids <provider>/<model>: the provider is one letter, the model is made
\* of letters and of the characters / : . - _
IdChars == {"a", "s", "/", ":", ".", "-", "_"}
ModelIds ==
    {<< "p", "/" >> \o m : m \in UNION {[1..n -> IdChars] : n \in 1..MaxIdLen}}

callModelIdToVectorColumn ==
    /\ input.fn = "modelIdToVectorColumn"
    /\ returns(modelIdToVectorColumn(input.modelId))

\* the column name just computed is converted back
callVectorColumnToModelId ==
    /\ output.fn = "modelIdToVectorColumn"
    /\ output.result # Thrown
    /\ output' = [fn |-> "vectorColumnToModelId", column |-> output.result,
                  result |-> vectorColumnToModelId(output.result)]
    /\ UNCHANGED input
    /\ UNCHANGED MemoryVars
    /\ UNCHANGED ExecVars

InitColumn ==
    /\ IdleInit
    /\ input \in [fn : {"modelIdToVectorColumn"}, modelId : ModelIds]
    /\ output = NoCall
NextColumn ==
    \/ callModelIdToVectorColumn
    \/ callVectorColumnToModelId
ColumnSpec == InitColumn /\ [][NextColumn]_vars

\* ------------------------------------------------------------------ MemoryStore.search
\* The read path on a table of MaxRows records.  A record is named by its
\* position, which is also its createdAt; score is the number of occurrences
\* of the query's keywords in its content; vec says whether its field in the
\* target model's vector column is set.  No sessionId / type filter is given.
SearchRows == [1..MaxRows -> [score : 0..MaxScore, vec : BOOLEAN]]
Modes == {"fulltext", "vector", "hybrid", "auto"}

slice(s, n) == SubSeq(s, 1, Min(n, Len(s)))

\* getVectorDimension: the length of the first non-null vector of the column
tableVectorDimension(r) ==
    IF \E i \in 1..MaxRows : r.rows[i].vec THEN r.columnDimension ELSE 0

\* r.nearest is the order of the records by distance to the query vector
vectorSearch(r) ==
    IF ~r.hasEmbedding THEN << >>
    ELSE IF tableVectorDimension(r) = 0 THEN << >>
    ELSE IF r.embedThrows THEN << >>
    ELSE IF r.queryDimension # tableVectorDimension(r) THEN << >>
    ELSE slice(SelectSeq(r.nearest, LAMBDA i : r.rows[i].vec), r.limit)

\* fulltextSearch and fulltextSearchWithMigrationFilter (createdAt > after)
fulltextSearch(r, after) ==
    LET allResults == SelectSeq(positions(r.rows), LAMBDA i : i > after)
        scored == SelectSeq(allResults, LAMBDA i : r.rows[i].score > 0)
    IN  slice(sortBy(scored, [i \in 1..MaxRows |-> 0 - r.rows[i].score]), r.limit)

\* vector results first, then fulltext ones not seen while there is room
RECURSIVE merge(_, _, _)
merge(merged, fulltextResults, limit) ==
    IF fulltextResults = << >> THEN merged
    ELSE LET entry == Head(fulltextResults)
             seen == {merged[k] : k \in 1..Len(merged)}
         IN  merge(IF entry \notin seen /\ Len(merged) < limit
                   THEN Append(merged, entry) ELSE merged,
                   Tail(fulltextResults), limit)

hybridSearch(r) ==
    LET vectorResults == IF r.hasEmbedding /\ r.hasVectorColumn
                         THEN vectorSearch(r) ELSE << >>
    IN  slice(merge(vectorResults, fulltextSearch(r, 0), r.limit), r.limit)

migrationAwareSearch(r) ==
    LET vectorResults == IF r.hasEmbedding /\ r.hasVectorColumn
                         THEN vectorSearch(r) ELSE << >>
    IN  slice(merge(vectorResults, fulltextSearch(r, r.migratedUntil), r.limit), r.limit)

SearchResult(lastSearchMode, entries) ==
    [lastSearchMode |-> lastSearchMode, entries |-> entries]

search(r) ==
    CASE r.mode = "fulltext" -> SearchResult("fulltext", fulltextSearch(r, 0))
      [] r.mode = "vector" ->
            IF ~r.hasEmbedding \/ ~r.hasVectorColumn
            THEN SearchResult("fulltext", fulltextSearch(r, 0))
            ELSE SearchResult("vector", vectorSearch(r))
      [] r.mode = "hybrid" -> SearchResult("hybrid", hybridSearch(r))
      [] r.mode = "auto" ->
            IF r.migrating
            THEN SearchResult("migration-hybrid", migrationAwareSearch(r))
            ELSE IF r.hasEmbedding /\ r.hasVectorColumn /\ Len(vectorSearch(r)) > 0
            THEN SearchResult("vector", vectorSearch(r))
            ELSE SearchResult("fulltext", fulltextSearch(r, 0))

\* a column that is not in the schema holds no vector
SearchInputs ==
    {r \in [fn : {"search"}, rows : SearchRows, mode : Modes, limit : 1..MaxLimit,
            hasEmbedding : BOOLEAN, hasVectorColumn : BOOLEAN, embedThrows : BOOLEAN,
            columnDimension : 1..MaxDim, queryDimension : 1..MaxDim,
            migrating : BOOLEAN, migratedUntil : 0..MaxRows,
            nearest : {s \in [1..MaxRows -> 1..MaxRows] :
                          \A i, j \in 1..MaxRows : i # j => s[i] # s[j]}] :
        /\ ~r.hasVectorColumn => \A i \in 1..MaxRows : ~r.rows[i].vec
        /\ ~r.migrating => r.migratedUntil = 0}

callSearch ==
    /\ input.fn = "search"
    /\ returns(search(input))

InitSearch == IdleInit /\ input \in SearchInputs /\ output = NoCall
NextSearch == callSearch
SearchSpec == InitSearch /\ [][NextSearch]_vars

\* ------------------------------------------------------------------ MemoryStore.cleanupExpired
\* Times are counted in days.  A record is named by its position; the result
\* is the ids left in the table and the number of records deleted.
EntryTypes == {"conversation", "summary", "entity"}
CleanupRows == [1..MaxRows -> [type : EntryTypes, createdAt : 1..MaxDays]]

cleanupExpired(r) ==
    LET cutoffTimestamp == r.now - r.shortTermRetentionDays
        expired == SelectSeq(positions(r.rows),
                             LAMBDA i : r.rows[i].createdAt < cutoffTimestamp)
        isExpired(i) == \E k \in 1..Len(expired) : expired[k] = i
    IN  [table |-> SelectSeq(positions(r.rows), LAMBDA i : ~isExpired(i)),
         deletedCount |-> Len(expired)]

callCleanupExpired ==
    /\ input.fn = "cleanupExpired"
    /\ returns(cleanupExpired(input))

InitCleanup ==
    /\ IdleInit
    /\ input \in [fn : {"cleanupExpired"}, rows : CleanupRows,
                  now : MaxDays..(MaxDays + 1), shortTermRetentionDays : 1..MaxDays]
    /\ output = NoCall
NextCleanup == callCleanupExpired
CleanupSpec == InitCleanup /\ [][NextCleanup]_vars

\* ------------------------------------------------------------------ parseReActResponse
\* The reply of the model is a JSON object {thought, action, action_input}.
\* An action name is a word in a letter case; toLowerCase gives the word in
\* lower case.
ReActActions == {"finish", "read_file", "write_file", "list_dir", "shell_exec",
                 "web_fetch", "send_message"}
ACTION_ALIASES == [exec |-> "shell_exec", run |-> "shell_exec", bash |-> "shell_exec",
                   done |-> "finish", answer |-> "finish", ls |-> "list_dir",
                   cat |-> "read_file", fetch |-> "web_fetch"]
ActionNames == [word : ReActActions \cup DOMAIN ACTION_ALIASES \cup {"invalid_action"},
                casing : {"lower", "upper", "mixed"}]
actionToLowerCase(name) == [name EXCEPT !.casing = "lower"]
NoAction == [action |-> "null", action_input |-> ""]

\* a variant that looks the name up as it was written
parseReActResponseCaseSensitive(r) ==
    LET resolved == IF r.action.casing = "lower" /\ r.action.word \in DOMAIN ACTION_ALIASES
                    THEN ACTION_ALIASES[r.action.word] ELSE r.action.word
    IN  IF r.action.casing = "lower" /\ resolved \in ReActActions
        THEN [action |-> resolved, action_input |-> r.action_input]
        ELSE NoAction

parseReActResponse(r) ==
    LET name == actionToLowerCase(r.action)
        resolved == IF name.word \in DOMAIN ACTION_ALIASES
                    THEN ACTION_ALIASES[name.word] ELSE name.word
    IN  IF resolved \in ReActActions
        THEN [action |-> resolved, action_input |-> r.action_input]
        ELSE NoAction

callParseReActResponse ==
    /\ input.fn = "parseReActResponse"
    /\ returns(parseReActResponse(input))

InitParse ==
    /\ IdleInit
    /\ input \in [fn : {"parseReActResponse"}, action : ActionNames,
                  action_input : {"ls -la", "/home"}]
    /\ output = NoCall
NextParse == callParseReActResponse
ParseSpec == InitParse /\ [][NextParse]_vars

\* ------------------------------------------------------------------ a record that always fails
\* One record whose content the embedding service refuses: embed() rejects for
\* it on every call, of whatever batch.  `input` names the record; every other
\* await of the worker resolves.
MaxFailed == 3   \* entries failedRecords can hold

\* processBatch 548-586 for the refused record: embed() rejects, the catch
\* block pushes the id to failedRecords and the loop goes on
embedRejects(t) ==
    LET tk == tasks[t]
    IN /\ tk.pc = "read"
       /\ Entry(t).id = input.id
       /\ Len(state[tk.inst].failedRecords) < MaxFailed
       /\ Failed(t)
       /\ UNCHANGED << table, stores, failBudget, now >>
       /\ UNCHANGED Config
       /\ UNCHANGED ExecVars
       /\ UNCHANGED CallVars

\* processBatch 548-555 for any other record
embedResolves(t, time) ==
    /\ tasks[t].pc = "read"
    /\ Entry(t).id # input.id
    /\ processEntry(t, time)

InitRejects ==
    /\ table = InitTable
    /\ now = InitRows + 1
    /\ stateFile = NoState
    /\ state = [i \in Insts |-> NoState]
    /\ aborted = [i \in Insts |-> FALSE]
    /\ nInst = 0
    /\ migrationInstance = 0
    /\ tasks = << >>
    /\ calls = << >>
    /\ emitted = {}
    /\ failBudget = 0
    /\ stores = 0
    /\ controls = 0
    /\ restarts = 0
    /\ backup = FALSE
    /\ written = [i \in Insts |-> [id \in Ids |-> 0]]
    /\ ExecInit
    /\ systemPrompt = TRUE
    /\ input \in {[fn |-> "embed", id |-> id] : id \in 1 .. InitRows}
    /\ output = NoCall

NextRejects ==
    \/ \E t \in Tasks : embedRejects(t)
    \/ \E t \in Tasks, time \in Clock : embedResolves(t, time)
    \/ \E t \in Tasks : updateVectorDelete(t)
    \/ \E t \in Tasks : updateVectorAdd(t)
    \/ \E t \in Tasks : runMigrationLoop(t)
    \/ \E t \in Tasks, time \in Clock : runMigrationFetch(t, time)
    \/ \E bs \in 1 .. MaxBatch : start(migrationInstance, bs)
    \/ \E c \in Calls : startInit(c)
    \/ \E c \in Calls : startSpawn(c)
    \/ \E autoStart \in BOOLEAN : migrateToModel(autoStart)
    \/ \E c \in Calls : migrateCreate(c)

RejectSpec == InitRejects /\ [][NextRejects]_vars

\* ------------------------------------------------------------------ ModelRouter.getModelConfig
\* The pool holds one provider, "p", whose models are registered under ids that
\* are strings (sequences of characters) and may contain '/'.  A ModelConfig is
\* its id and its capabilities vision and level.
Provider == << "p" >>
ConfigIds ==
    {id \in UNION {[1..n -> {"a", "/"}] : n \in 1..MaxIdLen} :
        id[1] # "/" /\ id[Len(id)] # "/"}
RegisteredConfigs == [id : ConfigIds, vision : BOOLEAN, level : {"medium", "high"}]
RegisteredPools ==
    {models \in UNION {[1..n -> RegisteredConfigs] : n \in 1..MaxModels} :
        \A i, j \in 1..Len(models) : i # j => models[i].id # models[j].id}

\* buildModelInfos: `${provider}/${config.id}`
modelKey(config) == Provider \o << "/" >> \o config.id

\* const [provider, id] = modelId.split('/'): the first two parts
getModelConfig(r, modelId) ==
    LET parts == split(modelId, "/")
        hasSlash == \E i \in 1..Len(modelId) : modelId[i] = "/"
        provider == IF hasSlash THEN parts[1] ELSE << >>
        id == IF hasSlash THEN parts[2] ELSE modelId
        models == IF provider = Provider THEN r.models ELSE << >>
        found == SelectSeq(models, LAMBDA m : m.id = id)
    IN  IF provider # << >> /\ found # << >> THEN found[1]
        ELSE [id |-> IF id # << >> THEN id ELSE modelId,
              vision |-> FALSE, level |-> "medium"]

\* r.intent is the model of the pool the intent analysis named
selectModelByIntent(r) ==
    LET model == modelKey(r.models[r.intent])
    IN  [model |-> model, config |-> getModelConfig(r, model)]

callSelectModelByIntent ==
    /\ input.fn = "selectModelByIntent"
    /\ returns(selectModelByIntent(input))

InitConfig ==
    /\ IdleInit
    /\ input \in {r \in [fn : {"selectModelByIntent"}, models : RegisteredPools,
                         intent : 1..MaxModels] : r.intent <= Len(r.models)}
    /\ output = NoCall
NextConfig == callSelectModelByIntent
ConfigSpec == InitConfig /\ [][NextConfig]_vars

\* ------------------------------------------------------------------ properties
Range(s) == {s[k] : k \in 1 .. Len(s)}

\* a runMigration loop past its loop test: fetching or processing a batch
Working(t) == tasks[t].kind = "mig" /\ tasks[t].pc # "loop"

\* a task inside the delete / add / recover sequence of updateVector
InUpdateVector(t) == tasks[t].pc \in {"del", "add", "rec", "readd"}

\* the target column of the row holds a vector (a present but empty vector is
\* reported as absent)
HasTargetVector(r) == r.vec \in {MIG, FG}

\* C1: after every migration batch (the worker has saved the state and sleeps
\* before its next loop test), every row with createdAt <= migratedUntil has a
\* non-empty vector in the target column or is listed in failedRecords.
C1_CursorCoversRows ==
    \A t \in Tasks :
        tasks[t].kind = "mig" /\ tasks[t].pc = "loop" =>
            LET st == state[tasks[t].inst]
            IN \A r \in Range(table) :
                   r.createdAt <= st.migratedUntil =>
                       HasTargetVector(r) \/ r.id \in Range(st.failedRecords)

\* C2: the migration worker is single-threaded per store: at most one worker
\* loop is fetching or processing a batch, and never are two updateVector calls
\* of worker loops in flight, whatever the interleaving of start, pause and
\* resume.
C2_SingleWorker ==
    /\ Cardinality({t \in Tasks : Working(t)}) <= 1
    /\ Cardinality({t \in Tasks : Working(t) /\ InUpdateVector(t)}) <= 1

\* C3: migratedUntil is non-decreasing: no step takes a set cursor to a lower
\* set value (each processed record leaves max(migratedUntil, createdAt)).
C3_CursorNonDecreasing ==
    [][\A i \in Insts :
          state[i].migratedUntil # 0 /\ state'[i].migratedUntil # 0 =>
              state'[i].migratedUntil >= state[i].migratedUntil]_vars

\* C4: 0 <= migratedCount <= totalRecords in every reachable state.
C4_CountWithinTotal ==
    \A i \in Insts :
        /\ 0 <= state[i].migratedCount
        /\ state[i].migratedCount <= state[i].totalRecords

\* C6: each record is embedded and written by updateVector successfully at
\* most once per migration, across pause, process restart and resume.
C6_WrittenAtMostOnce ==
    \A i \in Insts : \A id \in Ids : written[i][id] <= 1

\* C7: only one migration is running at any time: no interleaving of
\* EmbeddingMigration.start and MemoryStore.migrateToModel calls leaves two
\* migrations in status running, each with its worker loop.
C7_OneRunningMigration ==
    Cardinality({i \in Insts :
                    /\ state[i].status = "running"
                    /\ \E t \in Tasks : tasks[t].kind = "mig" /\ tasks[t].inst = i}) <= 1

\* object i runs a migration that start or resume set going: its status is
\* running and its worker loop exists or is about to be spawned
Underway(i) ==
    /\ state[i].status = "running"
    /\ \/ \E t \in Tasks : tasks[t].kind = "mig" /\ tasks[t].inst = i
       \/ \E c \in Calls : calls[c].inst = i /\ calls[c].pc = "spawn"

Completed(i) ==
    /\ state[i].status = "completed"
    /\ state[i].completedAt # 0
    /\ "complete" \in emitted

Raised(t) ==
    tasks[t].kind = "mig" =>
        Entry(t).id \in Range(state'[tasks[t].inst].failedRecords)

\* a step in which the catch block of updateVector rethrows
CatchEnds(t) ==
    \/ updateVectorRecover(t) /\ RowsWithId(table, tasks[t].snap.id) # << >>
    \/ updateVectorReAdd(t)

\* a step in which updateVector returns normally
Returns(t) == updateVectorAdd(t) /\ table' # table

C10_LastWriterWins ==
    [][\A t \in Tasks :
          Returns(t) =>
              RowsWithId(table', tasks[t].snap.id) =
                  << updated(tasks[t].snap, tasks[t].ts) >>]_vars

\* C11: the id of a memory entry is unique: after any interleaving of store and
\* updateVector calls the table holds at most one row per id.
C11_IdUnique ==
    \A id \in Ids : Len(RowsWithId(table, id)) <= 1

\* C12: a corrupt state file is never deleted or replaced by a new state
\* without a backup of it having been written (the load that found it corrupt
\* copied it to a timestamped backup before the status was taken as idle).
C12_CorruptFileBackedUp ==
    [][stateFile = Corrupt /\ stateFile' # Corrupt => backup]_vars

\* C13: pause() on a running migration flips the status to paused, signals the
\* worker and persists status = paused with the migratedCount reached so far,
\* and the status then remains paused until resume() is called: a paused status
\* is left only for running (which resume(), or a new start(), sets) or with
\* the process.
C13_PausedUntilResume ==
    [][/\ pause =>
             /\ state'[migrationInstance].status = "paused"
             /\ aborted'[migrationInstance]
             /\ stateFile'.status = "paused"
             /\ stateFile'.migratedCount = state[migrationInstance].migratedCount
       /\ \A i \in Insts :
             state[i].status = "paused" =>
                 state'[i].status \in {"paused", "running", "null"}]_vars

\* The step in which the retry of the record at the head of task t ends: the
\* task moves on to its next record or, after the last one, returns.
RetryEnds(t) ==
    /\ tasks[t].kind = "retry"
    /\ restarts' = restarts
    /\ \/ tasks' = RemoveAt(tasks, t)
       \/ Len(tasks') = Len(tasks) /\ tasks'[t].idx = tasks[t].idx + 1

\* The retry ends with updateVector having written the record back.
RetrySucceeds(t) == RetryEnds(t) /\ tasks[t].pc = "add" /\ table' # table

\* The call of retryFailed: a retry task is added.
RetryCalled ==
    /\ Len(tasks') = Len(tasks) + 1
    /\ tasks'[Len(tasks')].kind = "retry"

TurnEnds(outcome) == reply'.n # reply.n /\ reply'.outcome = outcome

\* C15: on loop exhaustion (maxIterations reached without a final reply) the
\* session history is unchanged for that turn: the turn ends with every stored
\* history as it was.
C15_ExhaustionKeepsHistory ==
    [][TurnEnds("exhausted") => conversationHistory' = conversationHistory]_vars

\* C16: on loop exhaustion the reply of the turn is a truncated-reply notice: a
\* text of the executor's own, which is neither the output of a tool nor the
\* text that also answers a completed turn without content.
C16_ExhaustionNotice ==
    reply.outcome = "exhausted" => reply.content \notin Observations \cup {DONE}

\* C17: after a successful turn the stored history of the session is what it
\* was, extended by the final (user, assistant) pair of the turn and trimmed to
\* the limit: two messages longer until the trim applies, no earlier message
\* lost.
C17_HistoryExtendedByPair ==
    [][TurnEnds("final") =>
          LET key == reply'.key
              pair == << Message("user", reply'.n, FALSE),
                         Message("assistant", reply'.n, FALSE) >>
          IN get(conversationHistory', key) =
                 trimmed(get(conversationHistory, key) \o pair)]_vars

\* C18: system turns are never stored in session history: no stored history
\* of any session contains a message with role system.
C18_NoSystemStored ==
    \A k \in 1 .. Len(conversationHistory) :
        \A m \in Range(conversationHistory[k].messages) : m.role # "system"

\* A turn whose messages began with the system prompt has stored its session,
\* and a later turn of that session, built on the stored history, has too.
C18_Witness ==
    /\ systemPrompt
    /\ \E k \in 1 .. Len(conversationHistory) :
          \E m1, m2 \in Range(conversationHistory[k].messages) : m1.n < m2.n

\* C19: session eviction is LRU on insert: a session evicted when a turn
\* stores its session was updated no later than every session that is kept.
C19_EvictsLeastRecentlyUsed ==
    [][reply'.n # reply.n =>
          \A k \in Keys :
              has(conversationHistory, k) /\ ~has(conversationHistory', k) =>
                  \A j \in Keys :
                      has(conversationHistory', j) =>
                          lastUpdate[k] <= lastUpdate'[j]]_vars

\* C20: in every reachable state the stored history of any session holds at
\* most MAX_HISTORY_PER_SESSION messages and at most MAX_SESSIONS sessions are
\* stored.
C20_HistoryAndSessionsBounded ==
    /\ Len(conversationHistory) <= MAX_SESSIONS
    /\ \A k \in 1 .. Len(conversationHistory) :
          Len(conversationHistory[k].messages) <= MAX_HISTORY_PER_SESSION

\* Both limits are reached: more sessions were stored than are kept, and a
\* kept history was cut (built with a system prompt, an uncut history begins
\* with a user message).
C20_Witness ==
    /\ systemPrompt
    /\ Len(conversationHistory) = MAX_SESSIONS
    /\ Cardinality({k \in Keys : lastUpdate[k] > 0}) > MAX_SESSIONS
    /\ \E k \in 1 .. Len(conversationHistory) :
          /\ Len(conversationHistory[k].messages) = MAX_HISTORY_PER_SESSION
          /\ conversationHistory[k].messages[1].role # "user"

\* C21: processing one inbound message performs at most maxIterations loop
\* iterations and then ends, whatever the model and the tools reply: the
\* iteration counter never passes maxIterations, and the step after the tool
\* call of the last iteration ends the turn.
C21_IterationsBounded ==
    /\ [](turn.iteration <= maxIterations)
    /\ [][turn.pc = "tool" /\ turn.iteration = maxIterations /\ turn' # turn
              => turn'.pc # "chat" /\ turn'.pc # "tool"]_vars

\* A turn has used every iteration and ended.
C21_Witness == reply.outcome = "exhausted"

\* C24: once stop() has been called the worker finishes the message it is
\* processing (the turn goes on to its end, no step is skipped) and begins
\* processing no further message.
C24_NoMessageAfterStop ==
    [][~running => turns' = turns]_vars

\* C23: a tool exception never aborts the turn: it is returned to the model as
\* a JSON error observation of the form {error: true, message, tool} and the
\* loop goes on with its next iteration.
C23_ToolErrorObservation ==
    turn.lastContent = FAILURE_JSON =>
        /\ turn.pc \in {"chat", "tool"}
        /\ DOMAIN runToolFailure = {"error", "message", "tool"}
        /\ runToolFailure.error = TRUE

\* C22: a gateway exception raised during a turn ends the turn at once and a
\* generic apology is returned to the channel for that message.
C22_GatewayErrorApology ==
    reply.outcome = "error" => reply.content = ERROR

\* ------------------------------------------------------------------ ModelRouter properties
\* the models a selection may return: those that pass the vision and tool filters
Candidates(r) ==
    {i \in 1..Len(r.models) : /\ r.visionOnly => r.models[i].vision
                              /\ r.requireTool => r.models[i].tool}
PriorityOf(r, i) == LEVEL_PRIORITY[r.models[i].level]
NoneAtTarget(r) ==
    \A i \in Candidates(r) : r.models[i].level # r.targetLevel
Selected == output.fn \in {"selectNearestModel", "selectModelByLevel"}

\* C28: with max=false and no candidate at the target level, the selection
\* returns a candidate of the highest level that is <= the target; if no
\* candidate is that low, it returns a candidate of the lowest level.
C28_NearestPrefersLower ==
    Selected /\ ~input.max /\ Candidates(input) # {} /\ NoneAtTarget(input) =>
        LET target == LEVEL_PRIORITY[input.targetLevel]
            lower == {i \in Candidates(input) : PriorityOf(input, i) <= target}
            m == output.result.model
        IN  /\ m \in Candidates(input)
            /\ lower # {} =>
                 /\ m \in lower
                 /\ \A i \in lower : PriorityOf(input, i) <= PriorityOf(input, m)
            /\ lower = {} =>
                 \A i \in Candidates(input) : PriorityOf(input, m) <= PriorityOf(input, i)

\* selectModelByLevel returned a lower model although a higher candidate was
\* nearer the target.
C28_Witness ==
    /\ output.fn = "selectModelByLevel"
    /\ ~input.max
    /\ NoneAtTarget(input)
    /\ output.result.model \in Candidates(input)
    /\ PriorityOf(input, output.result.model) < LEVEL_PRIORITY[input.targetLevel] - 1
    /\ \E i \in Candidates(input) :
           PriorityOf(input, i) = LEVEL_PRIORITY[input.targetLevel] + 1


\* a deterministic routing decision for a turn of an auto-mode router: route,
\* the fallback of the intent pre-pass, or the executor's first selection when
\* the intent model gave no usable answer
Routed ==
    \/ output.fn \in {"route", "providersRoute"} /\ input.auto
    \/ output.fn \in {"fallbackIntent", "providersFallbackIntent"}
    \/ output.fn = "selectModel" /\ input.auto /\ input.iteration = 1 /\ input.intent = 0
VisionModels(r) == {i \in 1..Len(r.models) : r.models[i].vision}
Distance(r, i) == abs(LEVEL_PRIORITY[r.models[i].level] - LEVEL_PRIORITY[r.level])

\* the model is a vision model of the level closest to the turn's level, the
\* higher of two equally close levels when max and the lower otherwise
ClosestVision(r, m) ==
    /\ m \in VisionModels(r)
    /\ \A i \in VisionModels(r) :
           /\ Distance(r, m) <= Distance(r, i)
           /\ Distance(r, i) = Distance(r, m) =>
                  IF r.max
                  THEN LEVEL_PRIORITY[r.models[i].level] <= LEVEL_PRIORITY[r.models[m].level]
                  ELSE LEVEL_PRIORITY[r.models[m].level] <= LEVEL_PRIORITY[r.models[i].level]

\* C25: when the turn carries images and the pool holds a vision model, the
\* router returns a vision model of the level closest to the turn's
\* complexity-derived level, ties going to the higher level when max=true and
\* to the lower level when max=false.
C25_VisionOverride ==
    Routed /\ input.hasImage /\ VisionModels(input) # {} =>
        ClosestVision(input, output.result.model)

\* the models route() may select: all of them, or those with tool support when
\* the core router finds that the content needs tools
RouteCandidates(r) ==
    {i \in 1..Len(r.models) :
        output.fn = "route" /\ r.requireTool => r.models[i].tool}
NoUltra(r) == \A i \in 1..Len(r.models) : r.models[i].level # "ultra"
VisionOverride(r) == r.hasImage /\ VisionModels(r) # {}

\* C26: with max=true and no ultra model in the pool, route() returns a
\* candidate of the highest level there is (unless the vision override applies).
C26_MaxReturnsHighest ==
    output.fn \in {"route", "providersRoute"} /\ input.auto /\ input.max
        /\ NoUltra(input) /\ ~VisionOverride(input) /\ RouteCandidates(input) # {} =>
            /\ output.result.model \in RouteCandidates(input)
            /\ \A i \in RouteCandidates(input) :
                   PriorityOf(input, i) <= PriorityOf(input, output.result.model)

\* the rule that matchRule finds for the content of the turn, if any
MatchedRule(r) == matchRule(r.content, Len(r.content), r.routing)

\* C27: in auto-mode deterministic routing (no vision override, max=false) the
\* first rule by descending priority whose keywords intersect the content
\* case-insensitively and whose length bounds hold sets the target level: the
\* model returned is the one selected for that rule's level.
C27_RuleSetsTargetLevel ==
    output.fn \in {"route", "providersRoute"} /\ input.auto /\ ~input.max
        /\ ~VisionOverride(input) /\ MatchedRule(input) # << >> =>
            output.result.model =
                selectModelByLevel(input, MatchedRule(input)[1].level, FALSE,
                                   output.fn = "route" /\ input.requireTool).model

\* ------------------------------------------------------------------ vector column properties
\* C29: vectorColumnToModelId(modelIdToVectorColumn(m)) = m for every model id
\* m = <provider>/<model> whose model part is made of letters and / : . -
C29_ColumnRoundTrip ==
    output.fn = "vectorColumnToModelId" => output.result = input.modelId

\* C39: modelIdToVectorColumn is injective: no other model id maps to the
\* column name computed for a model id.
C39_ColumnNamesInjective ==
    output.fn = "modelIdToVectorColumn" /\ output.result # Thrown =>
        \A other \in ModelIds :
            other # input.modelId => modelIdToVectorColumn(other) # output.result

\* ------------------------------------------------------------------ MemoryStore.search properties
\* the query is embedded and its dimension differs from that of the column
DimensionMismatch(r) ==
    /\ r.mode # "fulltext"
    /\ r.hasEmbedding
    /\ r.hasVectorColumn
    /\ ~r.embedThrows
    /\ tableVectorDimension(r) # 0
    /\ r.queryDimension # tableVectorDimension(r)
Matching(r) == {i \in 1..MaxRows : r.rows[i].score > 0}

\* C30: on a dimension mismatch the vector search is skipped and the search
\* falls back to fulltext: the records returned are records that match the
\* query's keywords, all of them up to the limit.
C30_MismatchFallsBackToFulltext ==
    output.fn = "search" /\ DimensionMismatch(input) =>
        LET entries == {output.result.entries[k] : k \in 1..Len(output.result.entries)}
        IN  /\ entries \subseteq Matching(input)
            /\ Cardinality(entries) = Min(input.limit, Cardinality(Matching(input)))

\* ------------------------------------------------------------------ MemoryStore.cleanupExpired properties
\* C31: expiry cleanup deletes only entries older than shortTermRetentionDays
\* and never an entry of type summary or entity.
C31_SummaryAndEntityRetained ==
    output.fn = "cleanupExpired" =>
        \A i \in 1..MaxRows :
            input.rows[i].type \in {"summary", "entity"} =>
                \E k \in 1..Len(output.result.table) : output.result.table[k] = i

\* ------------------------------------------------------------------ parseReActResponse properties
\* C32: in any letter case exec, run and bash resolve to shell_exec, done and
\* answer to finish, ls to list_dir, cat to read_file and fetch to web_fetch,
\* and action_input is returned unchanged.
C32_AliasesResolve ==
    output.fn = "parseReActResponse" =>
        LET word == input.action.word
            action == output.result.action
        IN  /\ word \in {"exec", "run", "bash"} => action = "shell_exec"
            /\ word \in {"done", "answer"} => action = "finish"
            /\ word = "ls" => action = "list_dir"
            /\ word = "cat" => action = "read_file"
            /\ word = "fetch" => action = "web_fetch"
            /\ action # "null" => output.result.action_input = input.action_input

\* EXEC was resolved to shell_exec.
C32_Witness ==
    /\ output.fn = "parseReActResponse"
    /\ input.action = [word |-> "exec", casing |-> "upper"]
    /\ output.result = [action |-> "shell_exec", action_input |-> input.action_input]

\* ------------------------------------------------------------------ restart properties
\* after a restart the state file says running, no worker exists and no call
\* that would create one is under way
Orphaned ==
    /\ restarts > 0
    /\ stateFile # Corrupt
    /\ stateFile.status = "running"
    /\ tasks = << >>
    /\ \A c \in 1..Len(calls) : calls[c].pc \notin {"init", "run", "spawn"}

\* a start or resume call ends without a worker being started: start() or
\* resume() throws, migrateToModel refuses, or the start() inside
\* migrateToModel throws
StartRefused ==
    \/ /\ controls' # controls
       /\ stateFile' = stateFile
       /\ tasks' = tasks
       /\ calls' = calls
    \/ \E c \in 1..Len(calls) :
           /\ calls[c].kind = "migrate"
           /\ calls[c].auto
           /\ nInst' # nInst
           /\ calls' = RemoveAt(calls, c)

\* C33: when the process stopped during a running migration, a start or resume
\* call made after the restart is accepted (a worker goes on with the
\* remaining records).
C33_ResumableAfterRestart ==
    [][Orphaned => ~StartRefused]_vars

\* ------------------------------------------------------------------ failing record properties
\* the worker of migration i holds the refused record in hand
Refused(t) ==
    /\ tasks[t].kind = "mig"
    /\ tasks[t].pc = "read"
    /\ Entry(t).id = input.id

Listed(i) == \E k \in 1 .. Len(state[i].failedRecords) : state[i].failedRecords[k] = input.id

\* C34: a record whose embedding fails on every attempt does not keep the worker
\* from terminating: once the record is listed in failedRecords no later batch
\* hands it to the worker again, so the batches run out.
C34_FailedRecordLeavesTheQueue ==
    \A t \in Tasks : Refused(t) => ~Listed(tasks[t].inst)

\* ------------------------------------------------------------------ completion properties
ListedIn(st, id) == \E k \in 1 .. Len(st.failedRecords) : st.failedRecords[k] = id

\* C35: when a migration has reached status completed, every record that
\* existed when it started and still exists has a non-empty vector in the
\* target column or is listed in failedRecords, whatever the batch size.
C35_CompletedCoversEveryRecord ==
    \A i \in Insts :
        state[i].status = "completed" =>
            \A k \in 1 .. Len(table) :
                table[k].createdAt <= InitRows =>
                    HasTargetVector(table[k]) \/ ListedIn(state[i], table[k].id)

\* the records the migration of object i has re-embedded since its start
Reembedded(i) == {id \in Ids : written[i][id] > 0}

\* C36: migratedCount is the number of distinct records the migration has
\* successfully re-embedded; no record is counted twice, by two batches, by a
\* batch and a later retryFailed, or by two retryFailed calls.  (Stated for
\* the one migration object of a process that was not restarted, whose
\* history `written` records.)
C36_CountsDistinctRecords ==
    restarts = 0 /\ nInst = 1 /\ state[1].status \in {"running", "paused", "completed"}
        => state[1].migratedCount = Cardinality(Reembedded(1))

\* ------------------------------------------------------------------ search during a migration
\* vectorSearch 806-869 on the target column: a row whose field in the column
\* is null or empty has no distance to the query vector and is not returned
vectorCovers(r) == HasTargetVector(r)

\* fulltextSearchWithMigrationFilter 751-754: `createdAt > migratedUntil` when
\* the status carries a cursor
fulltextCovers(r, migratedUntil) == migratedUntil # 0 => r.createdAt > migratedUntil

\* C37: while a migration to the target model is running, every stored record
\* is covered by at least one of the two sub-queries of the auto-mode search
\* (vector search over the rows that have the target vector, fulltext over the
\* rows with createdAt > migratedUntil).
C37_SearchCoversEveryRecord ==
    getMigrationStatus.status = "running" =>
        \A k \in 1 .. Len(table) :
            \/ vectorCovers(table[k])
            \/ fulltextCovers(table[k], getMigrationStatus.migratedUntil)

\* ------------------------------------------------------------------ updateVector frame
\* no updateVector call is between its read and its return
NoUpdateInFlight == \A t \in Tasks : tasks[t].pc \notin {"del", "add", "rec", "readd"}

\* C38: a successful updateVector changes only the target column, active_embed
\* and updatedAt of the row with its id and adds, removes or modifies no other
\* row, so it preserves the row count: while every updateVector call made so
\* far has succeeded and returned, the table holds the initial rows and one row
\* per store() call.
C38_UpdateVectorKeepsRowCount ==
    failBudget = MaxFail /\ NoUpdateInFlight => Len(table) = InitRows + stores

\* ------------------------------------------------------------------ getModelConfig properties
\* C40: the capability record returned with a selected model key
\* <provider>/<id> is the registered one of that model, also for an id that
\* contains '/': its vision and level are the registered vision and level.
C40_ConfigIsRegistered ==
    output.fn = "selectModelByIntent" =>
        LET registered == input.models[input.intent]
        IN  /\ output.result.config.vision = registered.vision
            /\ output.result.config.level = registered.level

=============================================================================
